---- MODULE Spec2Model ----
(***************************************************************************)
(* Block-gossip and vote-aggregation layer of the node: the block-proposal *)
(* stream protocol (announcer / receiver) and the pub/sub gossip loops     *)
(* (ACK, discovery request, discovery response, consensus reset).          *)
(*                                                                         *)
(* Byte strings are sequences over 0..255.  64-bit fields keep their       *)
(* two's complement wire form; their values are carried as integers and    *)
(* saturate at the ends of the 32-bit range TLC computes with.             *)
(***************************************************************************)
EXTENDS Integers, Sequences, FiniteSets, TLC

\* ------------------------------------------------------------------------
\* Bounds of the model
\* ------------------------------------------------------------------------
NumStreams == 1
MaxMsgs == 2
MaxSigBytes == 2
MaxLeaves == 5
MaxTxns == 3

\* SetChainState calls in a behaviour
MaxSetCalls == 2

\* peers in the peer list of the announcer
MaxPeers == 2

\* ------------------------------------------------------------------------
\* Program constants
\* ------------------------------------------------------------------------
HashLen == 32
MaxSigLen == 1000

Streams == 1..NumStreams

\* ------------------------------------------------------------------------
\* Little-endian integers
\* ------------------------------------------------------------------------
\* ends of the integer range values are computed in
MaxI == 2147483646 + 1
MinI == -MaxI - 1

Zeros(n) == [i \in 1..n |-> 0]

\* the low four bytes of n, 0 <= n <= MaxI
Low4(n) == << n % 256, (n \div 256) % 256, (n \div 65536) % 256, (n \div 16777216) % 256 >>

Compl(b) == [i \in 1..Len(b) |-> 255 - b[i]]

\* variant: the eight bytes in big-endian order
PutUint64BigEndian(n) ==
    IF n >= 0
    THEN Zeros(4) \o << (n \div 16777216) % 256, (n \div 65536) % 256, (n \div 256) % 256, n % 256 >>
    ELSE Compl(Zeros(4) \o << (-(n + 1) \div 16777216) % 256, (-(n + 1) \div 65536) % 256,
                              (-(n + 1) \div 256) % 256, -(n + 1) % 256 >>)

\* binary.LittleEndian.PutUint64(buf, uint64(n)) for an int64 n
PutUint64(n) ==
    IF n >= 0 THEN Low4(n) \o Zeros(4)
    ELSE Compl(Low4(-(n + 1)) \o Zeros(4))

\* binary.LittleEndian.PutUint32(buf, n), 0 <= n <= MaxI
PutUint32(n) == Low4(n)

\* binary.LittleEndian.PutUint16(buf, n), 0 <= n < 65536
PutUint16(n) == << n % 256, (n \div 256) % 256 >>

Val3(b) == b[1] + 256 * b[2] + 65536 * b[3]

\* binary.Read(r, binary.LittleEndian, &int64): the value of eight bytes,
\* saturated at MinI and MaxI
Int64(b) ==
    IF b[8] < 128
    THEN IF b[5] = 0 /\ b[6] = 0 /\ b[7] = 0 /\ b[8] = 0 /\ b[4] < 128
         THEN Val3(b) + 16777216 * b[4]
         ELSE MaxI
    ELSE IF b[5] = 255 /\ b[6] = 255 /\ b[7] = 255 /\ b[8] = 255 /\ b[4] >= 128
         THEN (Val3(b) + 16777216 * (b[4] - 128)) + MinI
         ELSE MinI

\* the bytes b[from .. from+n-1]
Slice(b, from, n) == SubSeq(b, from, from + n - 1)

\* ------------------------------------------------------------------------
\* blockProp and its codec
\* ------------------------------------------------------------------------

\* variant: PrevHash is written before Hash
BlockPropMarshalSwapped(bp) ==
    PutUint64(bp.Height) \o bp.PrevHash \o bp.Hash \o PutUint64(bp.Stamp)
        \o PutUint64(Len(bp.LeaderSig)) \o bp.LeaderSig

\* blockProp.MarshalBinary
BlockPropMarshalBinary(bp) ==
    PutUint64(bp.Height) \o bp.Hash \o bp.PrevHash \o PutUint64(bp.Stamp)
        \o PutUint64(Len(bp.LeaderSig)) \o bp.LeaderSig

NoProp == [Height |-> 0, Hash |-> Zeros(HashLen), PrevHash |-> Zeros(HashLen),
           Stamp |-> 0, LeaderSig |-> << >>]

\* the fixed part of an encoded blockProp: Height, Hash, PrevHash, Stamp, sigLen
PropFixedLen == 8 + 2 * HashLen + 8 + 8

\* variant: signatures of up to 65536 bytes are accepted
BlockPropReadFromLimit64K(data) ==
    LET have   == Len(data)
        height == Int64(Slice(data, 1, 8))
        hash   == Slice(data, 9, HashLen)
        prev   == Slice(data, 9 + HashLen, HashLen)
        stamp  == Int64(Slice(data, 9 + 2 * HashLen, 8))
        sigLen == Int64(Slice(data, 17 + 2 * HashLen, 8))
    IN  IF have < 8 THEN
            [err |-> "EOF", n |-> have, prop |-> NoProp]
        ELSE IF have < 8 + HashLen THEN
            [err |-> "EOF", n |-> have, prop |-> [NoProp EXCEPT !.Height = height]]
        ELSE IF have < 8 + 2 * HashLen THEN
            [err |-> "EOF", n |-> have,
             prop |-> [NoProp EXCEPT !.Height = height, !.Hash = hash]]
        ELSE IF have < 16 + 2 * HashLen THEN
            [err |-> "EOF", n |-> have,
             prop |-> [NoProp EXCEPT !.Height = height, !.Hash = hash, !.PrevHash = prev]]
        ELSE IF have < PropFixedLen THEN
            [err |-> "EOF", n |-> have,
             prop |-> [NoProp EXCEPT !.Height = height, !.Hash = hash, !.PrevHash = prev,
                                     !.Stamp = stamp]]
        ELSE IF sigLen > 65536 THEN
            [err |-> "invalid signature length", n |-> PropFixedLen,
             prop |-> [NoProp EXCEPT !.Height = height, !.Hash = hash, !.PrevHash = prev,
                                     !.Stamp = stamp]]
        ELSE IF sigLen < 0 THEN
            [err |-> "panic", n |-> PropFixedLen,
             prop |-> [NoProp EXCEPT !.Height = height, !.Hash = hash, !.PrevHash = prev,
                                     !.Stamp = stamp]]
        ELSE IF have < PropFixedLen + sigLen THEN
            [err |-> "EOF", n |-> have,
             prop |-> [Height |-> height, Hash |-> hash, PrevHash |-> prev, Stamp |-> stamp,
                       LeaderSig |-> Slice(data, PropFixedLen + 1, have - PropFixedLen)
                                         \o Zeros(sigLen - (have - PropFixedLen))]]
        ELSE
            [err |-> "none", n |-> PropFixedLen + sigLen,
             prop |-> [Height |-> height, Hash |-> hash, PrevHash |-> prev, Stamp |-> stamp,
                       LeaderSig |-> Slice(data, PropFixedLen + 1, sigLen)]]

\* blockProp.ReadFrom on a reader that holds exactly the bytes data and then
\* reports EOF.  err is "none", "EOF" (a short read: io.EOF or
\* io.ErrUnexpectedEOF), "invalid signature length", or "panic" (make([]byte,
\* sigLen) with a negative sigLen).  n is the number of bytes taken from the
\* reader, prop the fields as far as they were read.
BlockPropReadFrom(data) ==
    LET have   == Len(data)
        height == Int64(Slice(data, 1, 8))
        hash   == Slice(data, 9, HashLen)
        prev   == Slice(data, 9 + HashLen, HashLen)
        stamp  == Int64(Slice(data, 9 + 2 * HashLen, 8))
        sigLen == Int64(Slice(data, 17 + 2 * HashLen, 8))
    IN  IF have < 8 THEN
            [err |-> "EOF", n |-> have, prop |-> NoProp]
        ELSE IF have < 8 + HashLen THEN
            [err |-> "EOF", n |-> have, prop |-> [NoProp EXCEPT !.Height = height]]
        ELSE IF have < 8 + 2 * HashLen THEN
            [err |-> "EOF", n |-> have,
             prop |-> [NoProp EXCEPT !.Height = height, !.Hash = hash]]
        ELSE IF have < 16 + 2 * HashLen THEN
            [err |-> "EOF", n |-> have,
             prop |-> [NoProp EXCEPT !.Height = height, !.Hash = hash, !.PrevHash = prev]]
        ELSE IF have < PropFixedLen THEN
            [err |-> "EOF", n |-> have,
             prop |-> [NoProp EXCEPT !.Height = height, !.Hash = hash, !.PrevHash = prev,
                                     !.Stamp = stamp]]
        ELSE IF sigLen > MaxSigLen THEN
            [err |-> "invalid signature length", n |-> PropFixedLen,
             prop |-> [NoProp EXCEPT !.Height = height, !.Hash = hash, !.PrevHash = prev,
                                     !.Stamp = stamp]]
        ELSE IF sigLen < 0 THEN
            [err |-> "panic", n |-> PropFixedLen,
             prop |-> [NoProp EXCEPT !.Height = height, !.Hash = hash, !.PrevHash = prev,
                                     !.Stamp = stamp]]
        ELSE IF have < PropFixedLen + sigLen THEN
            [err |-> "EOF", n |-> have,
             prop |-> [Height |-> height, Hash |-> hash, PrevHash |-> prev, Stamp |-> stamp,
                       LeaderSig |-> Slice(data, PropFixedLen + 1, have - PropFixedLen)
                                         \o Zeros(sigLen - (have - PropFixedLen))]]
        ELSE
            [err |-> "none", n |-> PropFixedLen + sigLen,
             prop |-> [Height |-> height, Hash |-> hash, PrevHash |-> prev, Stamp |-> stamp,
                       LeaderSig |-> Slice(data, PropFixedLen + 1, sigLen)]]

\* blockProp.UnmarshalBinary
BlockPropUnmarshalBinary(data) == BlockPropReadFrom(data)

\* ------------------------------------------------------------------------
\* Blocks: header, digest and wire form
\* ------------------------------------------------------------------------

\* binary.LittleEndian.Uint32: the value of four bytes; values of 2^31 and
\* more are told apart by Uint32Big and saturate at MaxI
Uint32Big(b) == b[4] >= 128
Uint32(b) == IF Uint32Big(b) THEN MaxI ELSE Val3(b) + 16777216 * b[4]

Uint16(b) == b[1] + 256 * b[2]

RECURSIVE SumOver(_, _, _, _)
\* the sum over lo <= i <= hi of b[i] (w = 0) or of i * b[i] (w = 1)
SumOver(b, lo, hi, w) ==
    IF lo > hi THEN 0
    ELSE IF lo = hi THEN (IF w = 0 THEN b[lo] ELSE lo * b[lo])
    ELSE LET mid == (lo + hi) \div 2
         IN  SumOver(b, lo, mid, w) + SumOver(b, mid + 1, hi, w)

\* HashBytes: the 32-byte digest of a byte string.  The cryptographic hash is
\* stood for by a position-weighted checksum, which tells apart all the byte
\* strings the model hashes.
HashBytes(b) ==
    LET s1 == SumOver(b, 1, Len(b), 0)
        s2 == SumOver(b, 1, Len(b), 1)
    IN  [j \in 1..HashLen |->
            CASE j = 1 -> s1 % 256
              [] j = 2 -> (s1 \div 256) % 256
              [] j = 3 -> s2 % 256
              [] j = 4 -> (s2 \div 256) % 256
              [] j = 5 -> (s2 \div 65536) % 256
              [] j = 6 -> Len(b) % 256
              [] OTHER -> 0]

\* EncodeBlockHeader
EncodeBlockHeader(h) ==
    PutUint16(h.Version) \o PutUint64(h.Height) \o PutUint32(h.NumTxns)
        \o h.PrevHash \o h.PrevAppHash \o h.ValidatorSetHash
        \o PutUint64(h.Timestamp) \o h.MerkleRoot

\* the fixed size of an encoded header
HeaderLen == 2 + 8 + 4 + 3 * HashLen + 8 + HashLen

\* DecodeBlockHeader on exactly HeaderLen bytes
DecodeBlockHeader(b) ==
    [Version          |-> Uint16(Slice(b, 1, 2)),
     Height           |-> Int64(Slice(b, 3, 8)),
     NumTxns          |-> Uint32(Slice(b, 11, 4)),
     PrevHash         |-> Slice(b, 15, HashLen),
     PrevAppHash      |-> Slice(b, 15 + HashLen, HashLen),
     ValidatorSetHash |-> Slice(b, 15 + 2 * HashLen, HashLen),
     Timestamp        |-> Int64(Slice(b, 15 + 3 * HashLen, 8)),
     MerkleRoot       |-> Slice(b, 23 + 3 * HashLen, HashLen)]

\* BlockHeader.Hash: the digest of the encoded header
HeaderHash(h) == HashBytes(EncodeBlockHeader(h))

RECURSIVE EncodeTxns(_)
EncodeTxns(txns) ==
    IF txns = << >> THEN << >>
    ELSE PutUint32(Len(Head(txns))) \o Head(txns) \o EncodeTxns(Tail(txns))

\* EncodeBlock
EncodeBlock(blk) ==
    EncodeBlockHeader(blk.Header) \o PutUint32(Len(blk.Signature)) \o blk.Signature
        \o EncodeTxns(blk.Txns)

RECURSIVE DecodeTxnsBoundsFirst(_, _, _)
\* variant: a length is only compared with what is left of the buffer
DecodeTxnsBoundsFirst(raw, pos, k) ==
    IF k = 0 THEN [err |-> "none", txns |-> << >>]
    ELSE IF pos + 3 > Len(raw) THEN [err |-> "EOF", txns |-> << >>]
    ELSE
        LET lb == Slice(raw, pos, 4)
            n  == Uint32(lb)
        IN  IF n > Len(raw) - (pos + 3) THEN [err |-> "EOF", txns |-> << >>]
            ELSE
                LET rest == DecodeTxnsBoundsFirst(raw, pos + 4 + n, k - 1)
                IN  IF rest.err # "none" THEN rest
                    ELSE [err |-> "none",
                          txns |-> << Slice(raw, pos + 4, n) >> \o rest.txns]

RECURSIVE DecodeTxns(_, _, _)
\* the k length-prefixed transactions of raw that start at position pos
DecodeTxns(raw, pos, k) ==
    IF k = 0 THEN [err |-> "none", txns |-> << >>]
    ELSE IF pos + 3 > Len(raw) THEN [err |-> "EOF", txns |-> << >>]
    ELSE
        LET lb == Slice(raw, pos, 4)
            n  == Uint32(lb)
        IN  IF Uint32Big(lb) THEN [err |-> "invalid transaction length", txns |-> << >>]
            ELSE IF pos + 3 + n > Len(raw) THEN [err |-> "EOF", txns |-> << >>]
            ELSE
                LET rest == DecodeTxns(raw, pos + 4 + n, k - 1)
                IN  IF rest.err # "none" THEN rest
                    ELSE [err |-> "none",
                          txns |-> << Slice(raw, pos + 4, n) >> \o rest.txns]

NoBlock == [Header |-> DecodeBlockHeader(Zeros(HeaderLen)), Txns |-> << >>,
            Signature |-> << >>]

\* DecodeBlock
DecodeBlock(raw) ==
    IF Len(raw) < HeaderLen + 4 THEN [err |-> "EOF", blk |-> NoBlock]
    ELSE
        LET hdr == DecodeBlockHeader(Slice(raw, 1, HeaderLen))
            lb  == Slice(raw, HeaderLen + 1, 4)
            sl  == Uint32(lb)
        IN  IF Uint32Big(lb) THEN [err |-> "invalid signature length", blk |-> NoBlock]
            ELSE IF HeaderLen + 4 + sl > Len(raw) THEN [err |-> "EOF", blk |-> NoBlock]
            ELSE
                LET t == DecodeTxns(raw, HeaderLen + 4 + sl + 1, hdr.NumTxns)
                IN  IF t.err # "none" THEN [err |-> t.err, blk |-> NoBlock]
                    ELSE [err |-> "none",
                          blk |-> [Header |-> hdr, Txns |-> t.txns,
                                   Signature |-> Slice(raw, HeaderLen + 5, sl)]]

RECURSIVE RawTxSpan(_, _, _, _, _)
\* GetRawBlockTx, the loop over the transactions: k is the index of the
\* length-prefixed transaction that starts at pos, n is Header.NumTxns.  The
\* result is where transaction idx lies in raw.
RawTxSpan(raw, pos, k, idx, n) ==
    IF k >= n THEN [err |-> "ErrNotFound", from |-> 0, len |-> 0]
    ELSE IF pos + 3 > Len(raw) THEN [err |-> "EOF", from |-> 0, len |-> 0]
    ELSE
        LET lb == Slice(raw, pos, 4)
            tl == Uint32(lb)
        IN  IF Uint32Big(lb) \/ tl > Len(raw) - (pos + 3)
            THEN [err |-> "invalid transaction length", from |-> 0, len |-> 0]
            ELSE IF k = idx THEN [err |-> "none", from |-> pos + 4, len |-> tl]
            ELSE RawTxSpan(raw, pos + 4 + tl, k + 1, idx, n)

\* variant: the slice returned starts at the length prefix
GetRawBlockTxWithPrefix(raw, idx) ==
    IF Len(raw) < HeaderLen + 4 THEN [err |-> "EOF", tx |-> << >>]
    ELSE
        LET hdr == DecodeBlockHeader(Slice(raw, 1, HeaderLen))
            lb  == Slice(raw, HeaderLen + 1, 4)
            sl  == Uint32(lb)
        IN  IF Uint32Big(lb) THEN [err |-> "invalid signature length", tx |-> << >>]
            ELSE IF sl > Len(raw) - (HeaderLen + 4) THEN [err |-> "EOF", tx |-> << >>]
            ELSE
                LET s == RawTxSpan(raw, HeaderLen + 4 + sl + 1, 0, idx, hdr.NumTxns)
                IN  IF s.err # "none" THEN [err |-> s.err, tx |-> << >>]
                    ELSE [err |-> "none", tx |-> Slice(raw, s.from - 4, s.len + 4)]

\* GetRawBlockTx(rawBlk, idx): the header is parsed, the signature skipped,
\* and the transactions are passed over up to the one at idx
GetRawBlockTx(raw, idx) ==
    IF Len(raw) < HeaderLen + 4 THEN [err |-> "EOF", tx |-> << >>]
    ELSE
        LET hdr == DecodeBlockHeader(Slice(raw, 1, HeaderLen))
            lb  == Slice(raw, HeaderLen + 1, 4)
            sl  == Uint32(lb)
        IN  IF Uint32Big(lb) THEN [err |-> "invalid signature length", tx |-> << >>]
            ELSE IF sl > Len(raw) - (HeaderLen + 4) THEN [err |-> "EOF", tx |-> << >>]
            ELSE
                LET s == RawTxSpan(raw, HeaderLen + 4 + sl + 1, 0, idx, hdr.NumTxns)
                IN  IF s.err # "none" THEN [err |-> s.err, tx |-> << >>]
                    ELSE [err |-> "none", tx |-> Slice(raw, s.from, s.len)]

\* ------------------------------------------------------------------------
\* Merkle root over transaction hashes
\* ------------------------------------------------------------------------
\* a <= b in the order of bytes.Compare
LexLE(a, b) ==
    \/ a = b
    \/ \E i \in 1..Len(a) : a[i] < b[i] /\ \A j \in 1..(i - 1) : a[j] = b[j]

RECURSIVE MerkleLevelPromote(_)
\* variant: the last node of a level with an odd count goes up as it is
MerkleLevelPromote(level) ==
    IF level = << >> THEN << >>
    ELSE IF Len(level) = 1 THEN << level[1] >>
    ELSE << HashBytes(level[1] \o level[2]) >> \o MerkleLevelPromote(Tail(Tail(level)))

RECURSIVE MerkleLevelSorted(_)
\* variant: the two nodes of a pair are hashed smaller first
MerkleLevelSorted(level) ==
    IF level = << >> THEN << >>
    ELSE IF Len(level) = 1 THEN << HashBytes(level[1] \o level[1]) >>
    ELSE << IF LexLE(level[1], level[2]) THEN HashBytes(level[1] \o level[2])
            ELSE HashBytes(level[2] \o level[1]) >>
             \o MerkleLevelSorted(Tail(Tail(level)))

RECURSIVE MerkleLevel(_)
\* one level up: adjacent pairs hashed, the last node paired with itself when
\* the level has an odd count
MerkleLevel(level) ==
    IF level = << >> THEN << >>
    ELSE IF Len(level) = 1 THEN << HashBytes(level[1] \o level[1]) >>
    ELSE << HashBytes(level[1] \o level[2]) >> \o MerkleLevel(Tail(Tail(level)))

RECURSIVE CalcMerkleRoot(_)
CalcMerkleRoot(leaves) ==
    IF leaves = << >> THEN Zeros(HashLen)
    ELSE IF Len(leaves) = 1 THEN leaves[1]
    ELSE CalcMerkleRoot(MerkleLevel(leaves))

\* ------------------------------------------------------------------------
\* Inputs of the block-proposal stream
\* ------------------------------------------------------------------------

\* Hash{k, k+1, k+2}
HashOf(k) == [i \in 1..HashLen |-> IF i <= 3 THEN k + i - 1 ELSE 0]

\* NewBlock(height, prevHash, appHash, valSetHash, stamp, txns), then signed
NewBlock(height, stamp, txns, sig) ==
    [Header |-> [Version          |-> 0,
                 Height           |-> height,
                 NumTxns          |-> Len(txns),
                 PrevHash         |-> HashOf(1),
                 PrevAppHash      |-> HashOf(6),
                 ValidatorSetHash |-> Zeros(HashLen),
                 Timestamp        |-> stamp,
                 MerkleRoot       |-> CalcMerkleRoot([i \in 1..Len(txns) |-> HashBytes(txns[i])])],
     Txns      |-> txns,
     Signature |-> sig]

\* the announcement announceBlkProp makes of a block
PropOf(blk) ==
    [Height    |-> blk.Header.Height,
     Hash      |-> HeaderHash(blk.Header),
     PrevHash  |-> blk.Header.PrevHash,
     Stamp     |-> blk.Header.Timestamp,
     LeaderSig |-> blk.Signature]

Tx1 == << 116, 120, 49 >>
SigL == << 9, 8 >>

BlkA == NewBlock(1, 593, << Tx1 >>, SigL)
BlkB == NewBlock(2, 593, << >>, SigL)
BlkC == NewBlock(1, 594, << >>, SigL)

\* a well-formed header followed by a length field of 2^31
BadSigLenBlock == EncodeBlockHeader(BlkB.Header) \o << 0, 0, 0, 128 >>

DropLast(b, n) == SubSeq(b, 1, Len(b) - n)

\* the fixed part of an announcement of BlkA with the sigLen field set to n
PropWithSigLen(n) ==
    SubSeq(BlockPropMarshalBinary(PropOf(BlkA)), 1, PropFixedLen - 8) \o PutUint64(n)

\* What a peer may put on a stream: the bytes of an announcement and the
\* bytes it answers a pull with.
Announcements ==
    << \* honest announcements
       [propID |-> BlockPropMarshalBinary(PropOf(BlkA)), rawBlk |-> EncodeBlock(BlkA)],
       [propID |-> BlockPropMarshalBinary(PropOf(BlkB)), rawBlk |-> EncodeBlock(BlkB)],
       \* the content is at another height than announced
       [propID |-> BlockPropMarshalBinary([PropOf(BlkA) EXCEPT !.Height = 2]),
        rawBlk |-> EncodeBlock(BlkA)],
       \* the content hashes to another value than announced
       [propID |-> BlockPropMarshalBinary(PropOf(BlkA)), rawBlk |-> EncodeBlock(BlkC)],
       \* announcements that do not decode
       [propID |-> DropLast(BlockPropMarshalBinary(PropOf(BlkA)), 1),
        rawBlk |-> EncodeBlock(BlkA)],
       [propID |-> PropWithSigLen(MaxSigLen + 1), rawBlk |-> EncodeBlock(BlkA)],
       [propID |-> PropWithSigLen(-1), rawBlk |-> EncodeBlock(BlkA)],
       \* contents that do not decode
       [propID |-> BlockPropMarshalBinary(PropOf(BlkA)),
        rawBlk |-> DropLast(EncodeBlock(BlkA), 1)],
       [propID |-> BlockPropMarshalBinary(PropOf(BlkB)), rawBlk |-> BadSigLenBlock] >>

\* the request token of the block-proposal stream: "get"
getMsg == << 103, 101, 116 >>

\* ------------------------------------------------------------------------
\* State
\* ------------------------------------------------------------------------
VARIABLES
    \* block-proposal streams
    apc,       \* announcer of a stream: "idle", "await_get", "closed", "hung", "reset"
    annIdx,    \* which of Announcements the announcer of a stream advertises (0: none yet)
    a2r,       \* bytes written by the announcer that the receiver has not read yet
    aclosed,   \* the announcer closed the stream: the receiver reads EOF after a2r
    r2a,       \* bytes written by the receiver that the announcer has not read yet
    rpc,       \* receiver of a stream: "prop_read", "await_block", "closed", "panicked"
    rprop,     \* the receiver's decoded prop and the error of decoding it
    rraw,      \* the bytes the receiver pulled (blkProp), once read
    ceAccept,  \* answers of CE.AcceptProposal on a stream, in call order
    ceBlk,     \* blocks given to CE.NotifyBlockProposal on a stream, in call order
    wlog,      \* what was written on a stream, in order: "prop", "getMsg", "block"
    \* gossip loops
    focus,     \* what the environment exercises: "stream", the block-proposal streams,
               \* or the topic the CE and the remote peers put their messages on
    ctxDone,   \* the root context of each node is cancelled
    chanq,     \* ackChan, discReq, discResp, resetMsg of each node: values sent, not yet taken
    pubpc,     \* publish task of a node and topic: "run", "exiting" (left its
               \* loop), "closed" (topic closed), "done" (wait group released)
    subq,      \* subscription of a node to a topic: messages not yet returned by Next
    subpc,     \* receive task of a node and topic: "run", "sending", "handing",
               \* "in_ce", "cancelled" (subscription cancelled), "done"
               \* (subCanceled closed)
    last,      \* the latest turn of a receive loop: the node and topic, the message Next
               \* returned, the role read for it and the calls made for it
    ceOpen,    \* per node: some asynchronous call into the CE has not returned
    dpend,     \* per node: the DiscoveryResponse the receive task is sending
    nsent,     \* what the environment did so far: messages put on a channel or a
               \* topic, publishes it let fail, contexts it cancelled
    \* the blockProp codec
    cprop,     \* the blockProp that is encoded
    cbytes,    \* its encoding, as it reaches the decoder
    cdam,      \* what happened to the bytes on the way: "none", "cut", "siglen"
    cres,      \* what ReadFrom returned for cbytes
    cre,       \* the encoding of the decoded blockProp
    cpc,       \* "new", "encoded", "decoded", "reencoded"
    \* CalcMerkleRoot
    mleaves,   \* the caller's slice of leaves
    msnap,     \* the leaves as they were when the latest call was made
    mroot,     \* what the latest call returned
    mfirst,    \* the leaves and the root of the first call, once the caller
               \* has exchanged two leaves
    mpc,       \* "new", "called", "swapped", "recalled"
    \* DecodeBlock and GetRawBlockTx
    bblk,      \* the block that is encoded
    braw,      \* its encoding, as it reaches the decoder
    bdam,      \* what happened to the bytes on the way: nothing, "cut" after at
               \* bytes, or the length field of the signature ("siglen") or of
               \* transaction at ("txlen") overwritten with val
    bdec,      \* what DecodeBlock returned for braw
    bget,      \* the index given to GetRawBlockTx and what it returned for braw
    bpc,       \* "new", "encoded", "decoded", "got"
    \* votes
    vin,       \* what SignVote is called with: ack, appHash (<< >>: nil), key ("": nil)
    vsig,      \* what SignVote returned
    vvote,     \* the VoteInfo built around a signature
    vtamper,   \* what was changed in the vote's signature: "none", "data", "pubkey"
    vver,      \* the app hash given to VoteInfo.Verify and the error it returned
    venc,      \* the record that was encoded ("sig", "vote", "commit0", "commit1",
               \* "commit2"), the error, the bytes and the byte count reported
    vdec,      \* how many bytes were cut off before decoding, and the result
    vpc,       \* "new", "signed", "built", "verified", "encoded", "decoded"
    \* chain-state store
    chainRows, \* the committed rows of kwild_chain.chain: id, height, app_hash
    chainTx,   \* per SetChainState call: where it is, its arguments, the rows
               \* its UPDATE changed, whether it did the INSERT
    chainLast, \* the arguments of the call that committed last
    chainGet,  \* what the last GetChainState returned, and chainLast as it
               \* was when it ran
    \* consensus parameter store
    paramRows, \* the rows of kwild_chain.consensus_params: param_name -> param_value
    paramHist, \* last: the parameters handed last to a store call that
               \* succeeded; by: that call; inStep: every StoreDiff since the last StoreParams
               \* was given the stored parameters as original
    paramCall, \* the last call: op, its arguments, whether it began a
               \* transaction, and what it returned
    \* announceBlkProp
    annCall,   \* the block announced and n.peers() as the call found it
    annAt,     \* the index in peers the loop is at (0: before the loop)
    annLog,    \* the advertiseToPeer calls in order: peer, propID, rawBlk, ok
    annpc      \* "idle", "loop", "done"

svars == << apc, annIdx, a2r, aclosed, r2a, rpc, rprop, rraw, ceAccept, ceBlk, wlog >>

gvars == << focus, ctxDone, chanq, pubpc, subq, subpc, last, ceOpen, dpend, nsent >>

cvars == << cprop, cbytes, cdam, cres, cre, cpc >>

mvars == << mleaves, msnap, mroot, mfirst, mpc >>

\* the state of the functions of package types
bvars == << bblk, braw, bdam, bdec, bget, bpc >>

vvars == << vin, vsig, vvote, vtamper, vver, venc, vdec, vpc >>

dvars == << chainRows, chainTx, chainLast, chainGet >>

pvars == << paramRows, paramHist, paramCall >>

nvars == << annCall, annAt, annLog, annpc >>

tvars == << mvars, bvars, vvars, dvars, pvars, nvars >>

vars == << svars, gvars, cvars, tvars >>

\* the streams of a behaviour: when a proposal is announced again by other
\* validators, the receiver has one stream more, that of the leader
StreamsOf(f) == IF f = "reannounce" THEN 1..(NumStreams + 1) ELSE Streams

StreamInit ==
    /\ apc = [s \in StreamsOf(focus) |-> "idle"]
    /\ annIdx = [s \in StreamsOf(focus) |-> 0]
    /\ a2r = [s \in StreamsOf(focus) |-> << >>]
    /\ aclosed = [s \in StreamsOf(focus) |-> FALSE]
    /\ r2a = [s \in StreamsOf(focus) |-> << >>]
    /\ rpc = [s \in StreamsOf(focus) |-> "prop_read"]
    /\ rprop = [s \in StreamsOf(focus) |-> [err |-> "unread", prop |-> NoProp]]
    /\ rraw = [s \in StreamsOf(focus) |-> << >>]
    /\ ceAccept = [s \in StreamsOf(focus) |-> << >>]
    /\ ceBlk = [s \in StreamsOf(focus) |-> << >>]
    /\ wlog = [s \in StreamsOf(focus) |-> << >>]

\* the node that runs the stream handlers is alive: no handler has panicked
NodeUp == \A s \in DOMAIN rpc : rpc[s] # "panicked"

\* ------------------------------------------------------------------------
\* Announcer side of a stream (advertiseToPeer)
\* ------------------------------------------------------------------------

\* open the stream and write the announcement
AnnWriteProp(s) ==
    /\ focus = "stream"
    /\ apc[s] = "idle"
    /\ \E i \in 1..Len(Announcements) :
        /\ annIdx' = [annIdx EXCEPT ![s] = i]
        /\ a2r' = [a2r EXCEPT ![s] = Announcements[i].propID]
    /\ apc' = [apc EXCEPT ![s] = "await_get"]
    /\ wlog' = [wlog EXCEPT ![s] = Append(@, "prop")]
    /\ UNCHANGED << aclosed, r2a, rpc, rprop, rraw, ceAccept, ceBlk, gvars, cvars, tvars >>

\* the leader, or a validator that announces the leader's proposal again,
\* opens a stream and writes the announcement of the same block
ReAnnounce(s) ==
    /\ focus = "reannounce"
    /\ apc[s] = "idle"
    /\ annIdx' = [annIdx EXCEPT ![s] = 1]
    /\ a2r' = [a2r EXCEPT ![s] = Announcements[1].propID]
    /\ apc' = [apc EXCEPT ![s] = "await_get"]
    /\ wlog' = [wlog EXCEPT ![s] = Append(@, "prop")]
    /\ UNCHANGED << aclosed, r2a, rpc, rprop, rraw, ceAccept, ceBlk, gvars, cvars, tvars >>

\* what the announcer does with the receiver's reply: the block for getMsg,
\* nothing for anything else
AnnAnswer(reply, rawBlk) == IF reply = getMsg THEN rawBlk ELSE << >>

\* the reply arrived, or the receiver closed: answer and close
AnnReply(s) ==
    /\ apc[s] = "await_get"
    /\ r2a[s] # << >> \/ rpc[s] \in {"closed", "panicked"}
    /\ LET out == AnnAnswer(r2a[s], Announcements[annIdx[s]].rawBlk)
       IN  /\ a2r' = [a2r EXCEPT ![s] = @ \o out]
           /\ wlog' = [wlog EXCEPT ![s] = IF out # << >> THEN Append(@, "block") ELSE @]
    /\ r2a' = [r2a EXCEPT ![s] = << >>]
    /\ aclosed' = [aclosed EXCEPT ![s] = TRUE]
    /\ apc' = [apc EXCEPT ![s] = "closed"]
    /\ UNCHANGED << annIdx, rpc, rprop, rraw, ceAccept, ceBlk, gvars, cvars, tvars >>

\* blkSendTimeout expired with no reply: close
AnnTimeout(s) ==
    /\ apc[s] = "await_get"
    /\ r2a[s] = << >>
    /\ aclosed' = [aclosed EXCEPT ![s] = TRUE]
    /\ apc' = [apc EXCEPT ![s] = "closed"]
    /\ UNCHANGED << annIdx, a2r, r2a, rpc, rprop, rraw, ceAccept, ceBlk, wlog, gvars, cvars, tvars >>

\* a remote announcer that stops: it neither writes nor closes any more
AnnStall(s) ==
    /\ apc[s] = "await_get"
    /\ apc' = [apc EXCEPT ![s] = "hung"]
    /\ UNCHANGED << annIdx, a2r, aclosed, r2a, rpc, rprop, rraw, ceAccept, ceBlk, wlog, gvars, cvars, tvars >>

\* the stream is reset under the receiver: its reads and writes fail
AnnReset(s) ==
    /\ apc[s] = "await_get"
    /\ apc' = [apc EXCEPT ![s] = "reset"]
    /\ UNCHANGED << annIdx, a2r, aclosed, r2a, rpc, rprop, rraw, ceAccept, ceBlk, wlog, gvars, cvars, tvars >>

\* ------------------------------------------------------------------------
\* Receiver side of a stream (blkPropStreamHandler)
\* ------------------------------------------------------------------------

\* prop.ReadFrom(s) can return: the bytes decide the outcome, or no more
\* bytes will come
PropReadable(s) ==
    \/ aclosed[s]
    \/ apc[s] = "reset"
    \/ apc[s] # "idle" /\ BlockPropReadFrom(a2r[s]).err # "EOF"

\* variant: the error of ReadFrom is not looked at
PropDecodedAlways(r) == TRUE

\* the announcement was read without error
PropDecoded(r) == r.err = "none"

\* variant: the answer of AcceptProposal is not looked at
WantContentAlways(accept) == TRUE

\* the content is requested when the CE accepts the proposal
WantContent(accept) == accept

\* the handler up to its first blocking read of the content: decode the
\* announcement, ask the CE, request the content
RecvProp(s) ==
    /\ rpc[s] = "prop_read"
    /\ NodeUp
    /\ PropReadable(s)
    /\ LET r == BlockPropReadFrom(a2r[s])
       IN  /\ rprop' = [rprop EXCEPT ![s] = [err |-> r.err, prop |-> r.prop]]
           /\ a2r' = [a2r EXCEPT ![s] = SubSeq(@, r.n + 1, Len(@))]
           /\ IF r.err = "panic" THEN
                  /\ rpc' = [rpc EXCEPT ![s] = "panicked"]
                  /\ UNCHANGED << ceAccept, r2a, wlog >>
              ELSE IF ~PropDecoded(r) THEN
                  /\ rpc' = [rpc EXCEPT ![s] = "closed"]
                  /\ UNCHANGED << ceAccept, r2a, wlog >>
              ELSE \E accept \in BOOLEAN, wok \in BOOLEAN :
                  /\ ceAccept' = [ceAccept EXCEPT ![s] = Append(@, accept)]
                  /\ apc[s] = "reset" => ~wok
                  /\ IF WantContent(accept) /\ wok THEN
                         /\ r2a' = [r2a EXCEPT ![s] = @ \o getMsg]
                         /\ wlog' = [wlog EXCEPT ![s] = Append(@, "getMsg")]
                         /\ rpc' = [rpc EXCEPT ![s] = "await_block"]
                     ELSE
                         /\ rpc' = [rpc EXCEPT ![s] = "closed"]
                         /\ UNCHANGED << r2a, wlog >>
    /\ UNCHANGED << apc, annIdx, aclosed, rraw, ceBlk, gvars, cvars, tvars >>

\* variant: the hash of the pulled block is not compared
HeightMatchesProp(blk, prop) == blk.Header.Height = prop.Height

\* variant: a block that a stream has already handed to the CE is dropped
BlockNewAndMatchesProp(blk, prop) ==
    /\ blk.Header.Height = prop.Height
    /\ HeaderHash(blk.Header) = prop.Hash
    /\ \A t \in DOMAIN ceBlk : \A i \in 1..Len(ceBlk[t]) : ceBlk[t][i] # blk

\* the checks of the pulled block against the announcement
BlockMatchesProp(blk, prop) ==
    /\ blk.Header.Height = prop.Height
    /\ HeaderHash(blk.Header) = prop.Hash

\* io.ReadAll returned: decode the content, check it, hand it to the CE
RecvBlock(s) ==
    /\ rpc[s] = "await_block"
    /\ NodeUp
    /\ aclosed[s] \/ apc[s] = "reset"
    /\ IF apc[s] = "reset" THEN
           \* the read failed
           UNCHANGED << rraw, a2r, ceBlk >>
       ELSE
           \E d \in {DecodeBlock(a2r[s])} :
               /\ rraw' = [rraw EXCEPT ![s] = a2r[s]]
               /\ a2r' = [a2r EXCEPT ![s] = << >>]
               /\ IF d.err = "none" /\ BlockMatchesProp(d.blk, rprop[s].prop)
                  THEN ceBlk' = [ceBlk EXCEPT ![s] = Append(@, d.blk)]
                  ELSE UNCHANGED ceBlk
    /\ rpc' = [rpc EXCEPT ![s] = "closed"]
    /\ UNCHANGED << apc, annIdx, aclosed, r2a, rprop, ceAccept, wlog, gvars, cvars, tvars >>

StreamNext ==
    \E s \in Streams :
        \/ AnnWriteProp(s)
        \/ AnnReply(s)
        \/ AnnTimeout(s)
        \/ AnnStall(s)
        \/ AnnReset(s)
        \/ RecvProp(s)
        \/ RecvBlock(s)

\* one proposal announced on several streams
ReannounceNext ==
    \E s \in DOMAIN apc :
        \/ ReAnnounce(s)
        \/ AnnReply(s)
        \/ AnnTimeout(s)
        \/ AnnStall(s)
        \/ AnnReset(s)
        \/ RecvProp(s)
        \/ RecvBlock(s)

\* ------------------------------------------------------------------------
\* Gossip: nodes, peers, topics, messages
\* ------------------------------------------------------------------------

\* two nodes that run the gossip loops on one pubsub, and two remote peers
Nodes == {"A", "B"}
ExtPeers == {"X", "Y"}

TopicACKs == "ack"
TopicDiscReq == "discreq"
TopicDiscResp == "discresp"
TopicReset == "reset"
Topics == {TopicACKs, TopicDiscReq, TopicDiscResp, TopicReset}

RoleLeader == "leader"
Roles == {RoleLeader, "validator", "sentry"}

\* the public key of a node or peer
PubKeyOf(p) == CASE p = "A" -> << 65 >> [] p = "B" -> << 66 >> [] p = "X" -> << 88 >>
                 [] OTHER -> << 89 >>

\* host.ID(): the peer id of a node or peer.  The ids of A, B and X embed the
\* public key; the id of Y is the hash of its key.
PeerIDOf(p) ==
    IF p = "Y" THEN [kind |-> "hashed", key |-> HashBytes(PubKeyOf(p))]
    ELSE [kind |-> "embedded", key |-> PubKeyOf(p)]

\* peers.PubKeyFromPeerID: the key an id embeds, an error for any other id
PubKeyFromPeerID(pid) ==
    IF pid.kind = "embedded" THEN [err |-> "none", key |-> pid.key]
    ELSE [err |-> "no public key in peer ID", key |-> << >>]

\* The payloads of the topics are carried as the sequence of the message's
\* fields; a payload with another number of fields does not decode.

\* AckRes.MarshalBinary
AckResMarshalBinary(a) ==
    << a.ACK, a.Height, a.BlkHash, a.AppHash, a.PubKeyType, a.PubKey, a.Signature >>

NoAckRes == [ACK |-> FALSE, Height |-> 0, BlkHash |-> << >>, AppHash |-> << >>,
             PubKeyType |-> 0, PubKey |-> << >>, Signature |-> << >>]

\* AckRes.UnmarshalBinary
AckResUnmarshalBinary(d) ==
    IF Len(d) # 7 THEN [err |-> "EOF", val |-> NoAckRes]
    ELSE [err |-> "none",
          val |-> [ACK |-> d[1], Height |-> d[2], BlkHash |-> d[3], AppHash |-> d[4],
                   PubKeyType |-> d[5], PubKey |-> d[6], Signature |-> d[7]]]

\* DiscoveryResponse.MarshalBinary
DiscResMarshalBinary(m) == PutUint64(m.BestHeight)

\* DiscoveryResponse.UnmarshalBinary
DiscResUnmarshalBinary(d) ==
    IF Len(d) < 8 THEN [err |-> "EOF", val |-> [BestHeight |-> 0]]
    ELSE [err |-> "none", val |-> [BestHeight |-> Int64(Slice(d, 1, 8))]]

\* ConsensusReset.Bytes
ConsensusResetBytes(r) == << r.ToHeight, r.TxIDs >>

\* ConsensusReset.UnmarshalBinary
ConsensusResetUnmarshalBinary(d) ==
    IF Len(d) # 2 THEN [err |-> "EOF", val |-> [ToHeight |-> 0, TxIDs |-> << >>]]
    ELSE [err |-> "none", val |-> [ToHeight |-> d[1], TxIDs |-> d[2]]]

\* the AckRes sendACK builds for node n (nil appHash is the empty sequence)
SendACKRes(n, ack, height, blkID, appHash, signature) ==
    [ACK |-> ack, AppHash |-> appHash, BlkHash |-> blkID, Height |-> height,
     Signature |-> signature, PubKeyType |-> 0, PubKey |-> PubKeyOf(n)]

\* what the remote peers publish on a topic: well-formed payloads and
\* payloads that do not decode
EnvPayloads(t, p) ==
    CASE t = TopicACKs ->
            { AckResMarshalBinary(SendACKRes(p, TRUE, 1, HashOf(1), HashOf(6), << 1 >>)),
              \* an ACK that names the key of another peer
              AckResMarshalBinary(SendACKRes("A", FALSE, 1, HashOf(1), << >>, << 1 >>)),
              << TRUE, 1 >> }
      [] t = TopicDiscResp ->
            { DiscResMarshalBinary([BestHeight |-> 5]), << 5, 0, 0 >> }
      [] t = TopicReset ->
            { ConsensusResetBytes([ToHeight |-> 4, TxIDs |-> << HashOf(1) >>]), << 4 >> }
      [] OTHER -> { << >> }

\* bki.Best(): the best height the block store of a node reports
Best(n) == IF n = "A" THEN 3 ELSE 6

\* capacity of ackChan, discReq, discResp and resetMsg
ChanCap == 1


\* ------------------------------------------------------------------------
\* The blockProp codec on its own: a blockProp is encoded, the bytes reach
\* the decoder whole, cut short or with another sigLen field, are decoded,
\* and the decoded value is encoded again
\* ------------------------------------------------------------------------
\* signatures of up to MaxSigBytes bytes
ShortSigs == UNION {[1..k -> {0, 255}] : k \in 0..MaxSigBytes}

\* a signature of n bytes
LongSig(n) == [i \in 1..n |-> i % 256]

\* the blockProps that are encoded: all combinations of a few heights, hash
\* pairs, stamps and short signatures, and signatures of the largest length
\* the decoder accepts and of one byte more
PropInputs ==
    [Height : {MinI, -2, 0, 300, MaxI},
     Hash : {HashOf(1)}, PrevHash : {Zeros(HashLen), HashOf(253)},
     Stamp : {-1, 593}, LeaderSig : ShortSigs]
    \cup [Height : {1}, Hash : {HashOf(1)}, PrevHash : {HashOf(4)}, Stamp : {593},
          LeaderSig : {LongSig(MaxSigLen - 1), LongSig(MaxSigLen), LongSig(MaxSigLen + 1)}]

\* values written over the sigLen field
SigLenValues == {-1, 0, 1, MaxSigBytes + 1, MaxSigLen, MaxSigLen + 1, 65536, MaxI}

NoRes == [err |-> "unread", n |-> 0, prop |-> NoProp]

CodecInit ==
    /\ cprop \in IF focus = "codec" THEN PropInputs ELSE {NoProp}
    /\ cbytes = << >>
    /\ cdam = "none"
    /\ cres = NoRes
    /\ cre = << >>
    /\ cpc = "new"

\* bp.MarshalBinary()
CodecMarshal ==
    /\ focus = "codec"
    /\ cpc = "new"
    /\ cbytes' = BlockPropMarshalBinary(cprop)
    /\ cpc' = "encoded"
    /\ UNCHANGED << cprop, cdam, cres, cre, svars, gvars, tvars >>

\* only the first k bytes reach the decoder
CodecTruncate(k) ==
    /\ cpc = "encoded"
    /\ cdam = "none"
    /\ k < Len(cbytes)
    /\ (k <= PropFixedLen + MaxSigBytes \/ k = Len(cbytes) - 1)
    /\ cbytes' = SubSeq(cbytes, 1, k)
    /\ cdam' = "cut"
    /\ UNCHANGED << cprop, cres, cre, cpc, svars, gvars, tvars >>

\* the sigLen field reaches the decoder as v
CodecSetSigLen(v) ==
    /\ cpc = "encoded"
    /\ cdam = "none"
    /\ v # Len(cprop.LeaderSig)
    /\ cbytes' = SubSeq(cbytes, 1, PropFixedLen - 8) \o PutUint64(v)
                     \o SubSeq(cbytes, PropFixedLen + 1, Len(cbytes))
    /\ cdam' = "siglen"
    /\ UNCHANGED << cprop, cres, cre, cpc, svars, gvars, tvars >>

\* bp.UnmarshalBinary(data)
CodecUnmarshal ==
    /\ cpc = "encoded"
    /\ cres' = BlockPropUnmarshalBinary(cbytes)
    /\ cpc' = "decoded"
    /\ UNCHANGED << cprop, cbytes, cdam, cre, svars, gvars, tvars >>

\* MarshalBinary of the decoded value
CodecRemarshal ==
    /\ cpc = "decoded"
    /\ cres.err = "none"
    /\ cre' = BlockPropMarshalBinary(cres.prop)
    /\ cpc' = "reencoded"
    /\ UNCHANGED << cprop, cbytes, cdam, cres, svars, gvars, tvars >>

CodecNext ==
    \/ CodecMarshal
    \/ \E k \in 0..(PropFixedLen + MaxSigLen) : CodecTruncate(k)
    \/ \E v \in SigLenValues : CodecSetSigLen(v)
    \/ CodecUnmarshal
    \/ CodecRemarshal

\* ------------------------------------------------------------------------
\* CalcMerkleRoot on its own: a caller computes the root of a list of
\* leaves, exchanges two leaves of its slice and computes the root again
\* ------------------------------------------------------------------------
\* Hash{k, k, k, k}
Leaf(k) == [i \in 1..HashLen |-> IF i <= 4 THEN k ELSE 0]

LeafValues == {Leaf(1), Leaf(2), Leaf(3)}

\* the slices given to CalcMerkleRoot: up to MaxLeaves leaves
LeafLists == UNION {[1..n -> LeafValues] : n \in 0..MaxLeaves}

NoCall == [leaves |-> << >>, root |-> << >>]

MerkleInit ==
    /\ mleaves \in IF focus = "merkle" THEN LeafLists ELSE {<< >>}
    /\ msnap = << >>
    /\ mroot = << >>
    /\ mfirst = NoCall
    /\ mpc = "new"

\* variant: the first level is computed in the caller's slice
LeavesAfterCallInPlace(leaves) ==
    IF Len(leaves) < 2 THEN leaves
    ELSE [i \in 1..Len(leaves) |->
            IF i <= Len(MerkleLevel(leaves)) THEN MerkleLevel(leaves)[i] ELSE leaves[i]]

\* the caller's slice when CalcMerkleRoot has returned: the function works on
\* storage of its own
LeavesAfterCall(leaves) == leaves

\* root := CalcMerkleRoot(leaves)
MerkleCall ==
    /\ focus = "merkle"
    /\ mpc \in {"new", "swapped"}
    /\ msnap' = mleaves
    /\ mroot' = CalcMerkleRoot(mleaves)
    /\ mleaves' = LeavesAfterCall(mleaves)
    /\ mpc' = IF mpc = "new" THEN "called" ELSE "recalled"
    /\ UNCHANGED << mfirst, svars, gvars, cvars, bvars, vvars, dvars, pvars, nvars >>

\* leaves[i], leaves[j] = leaves[j], leaves[i]
MerkleSwap(i, j) ==
    /\ mpc = "called"
    /\ i < j
    /\ j <= Len(mleaves)
    /\ mfirst' = [leaves |-> msnap, root |-> mroot]
    /\ mleaves' = [mleaves EXCEPT ![i] = mleaves[j], ![j] = mleaves[i]]
    /\ mpc' = "swapped"
    /\ UNCHANGED << msnap, mroot, svars, gvars, cvars, bvars, vvars, dvars, pvars, nvars >>

MerkleNext ==
    \/ MerkleCall
    \/ \E i, j \in 1..MaxLeaves : MerkleSwap(i, j)

\* ------------------------------------------------------------------------
\* The block codec on its own: a block is encoded, the bytes reach the
\* reader whole, cut short or with a length field overwritten, and are given
\* to DecodeBlock or to GetRawBlockTx
\* ------------------------------------------------------------------------
Tx2 == << 116, 50 >>

\* the transaction lists of the blocks: up to MaxTxns marshaled transactions
TxLists == UNION {[1..n -> {Tx1, Tx2}] : n \in 0..MaxTxns}

\* makeRawBlock: NewBlock(1, ...) over the transactions, signed
BlockInputs == {NewBlock(1, 593, txns, SigL) : txns \in TxLists}

\* what a length field is overwritten with: 2^31, 2^32 - 1, 2^30 and 200
LenFieldValues == {<< 0, 0, 0, 128 >>, << 255, 255, 255, 255 >>, << 0, 0, 0, 64 >>,
                   << 200, 0, 0, 0 >>}

NoDamage == [kind |-> "none", at |-> 0, val |-> << >>]

NoGet == [idx |-> 0, err |-> "unread", tx |-> << >>]

RECURSIVE TxLenPos(_, _)
\* where the length field of transaction j (from 0) starts in EncodeBlock(blk)
TxLenPos(blk, j) ==
    IF j = 0 THEN HeaderLen + 4 + Len(blk.Signature) + 1
    ELSE TxLenPos(blk, j - 1) + 4 + Len(blk.Txns[j])

\* raw with the four bytes at pos replaced by val
WithField(raw, pos, val) ==
    SubSeq(raw, 1, pos - 1) \o val \o SubSeq(raw, pos + 4, Len(raw))

BlockInit ==
    /\ bblk \in IF focus = "block" THEN BlockInputs ELSE {NoBlock}
    /\ braw = << >>
    /\ bdam = NoDamage
    /\ bdec = [err |-> "unread", blk |-> NoBlock]
    /\ bget = NoGet
    /\ bpc = "new"

\* EncodeBlock(blk)
BlockEncode ==
    /\ focus = "block"
    /\ bpc = "new"
    /\ braw' = EncodeBlock(bblk)
    /\ bpc' = "encoded"
    /\ UNCHANGED << bblk, bdam, bdec, bget, svars, gvars, cvars, mvars, vvars, dvars, pvars, nvars >>

\* only the first k bytes reach the reader
BlockTruncate(k) ==
    /\ bpc = "encoded"
    /\ bdam = NoDamage
    /\ k < Len(braw)
    /\ braw' = SubSeq(braw, 1, k)
    /\ bdam' = [kind |-> "cut", at |-> k, val |-> << >>]
    /\ UNCHANGED << bblk, bdec, bget, bpc, svars, gvars, cvars, mvars, vvars, dvars, pvars, nvars >>

\* the length field of the signature reaches the reader as val
BlockSetSigLen(val) ==
    /\ bpc = "encoded"
    /\ bdam = NoDamage
    /\ braw' = WithField(braw, HeaderLen + 1, val)
    /\ bdam' = [kind |-> "siglen", at |-> 0, val |-> val]
    /\ UNCHANGED << bblk, bdec, bget, bpc, svars, gvars, cvars, mvars, vvars, dvars, pvars, nvars >>

\* the length field of transaction j reaches the reader as val
BlockSetTxLen(j, val) ==
    /\ bpc = "encoded"
    /\ bdam = NoDamage
    /\ j < Len(bblk.Txns)
    /\ braw' = WithField(braw, TxLenPos(bblk, j), val)
    /\ bdam' = [kind |-> "txlen", at |-> j, val |-> val]
    /\ UNCHANGED << bblk, bdec, bget, bpc, svars, gvars, cvars, mvars, vvars, dvars, pvars, nvars >>

\* DecodeBlock(rawBlock)
BlockDecode ==
    /\ bpc = "encoded"
    /\ bdec' = DecodeBlock(braw)
    /\ bpc' = "decoded"
    /\ UNCHANGED << bblk, braw, bdam, bget, svars, gvars, cvars, mvars, vvars, dvars, pvars, nvars >>

\* GetRawBlockTx(rawBlock, idx)
BlockGetTx(idx) ==
    /\ bpc = "encoded"
    /\ \E r \in {GetRawBlockTx(braw, idx)} :
           bget' = [idx |-> idx, err |-> r.err, tx |-> r.tx]
    /\ bpc' = "got"
    /\ UNCHANGED << bblk, braw, bdam, bdec, svars, gvars, cvars, mvars, vvars, dvars, pvars, nvars >>

BlockNext ==
    \/ BlockEncode
    \/ \E k \in 0..(HeaderLen + 4 + Len(SigL) + 7 * MaxTxns) : BlockTruncate(k)
    \/ \E val \in LenFieldValues : BlockSetSigLen(val)
    \/ \E j \in 0..(MaxTxns - 1), val \in LenFieldValues : BlockSetTxLen(j, val)
    \/ BlockDecode
    \/ \E idx \in 0..(MaxTxns + 1) : BlockGetTx(idx)

\* ------------------------------------------------------------------------
\* Signature, VoteInfo and CommitInfo: wire forms
\* ------------------------------------------------------------------------
NoSignature == [Data |-> << >>, PubKey |-> << >>, PubKeyType |-> 0]

\* Signature.WriteTo: len(Data) u32, Data, len(PubKey) u32, PubKey, PubKeyType u8
SignatureBytes(sig) ==
    PutUint32(Len(sig.Data)) \o sig.Data \o PutUint32(Len(sig.PubKey)) \o sig.PubKey
        \o << sig.PubKeyType >>

\* variant: a missing PubKeyType is read as the zero type
SignatureReadFromLenient(b) ==
    IF Len(b) < 4 THEN [err |-> "EOF", n |-> 0, val |-> NoSignature]
    ELSE IF Uint32Big(Slice(b, 1, 4)) \/ Uint32(Slice(b, 1, 4)) > Len(b) - 4
    THEN [err |-> "invalid signature length", n |-> 4, val |-> NoSignature]
    ELSE
        LET dl == Uint32(Slice(b, 1, 4))
        IN  IF Len(b) < 8 + dl THEN [err |-> "EOF", n |-> 4 + dl, val |-> NoSignature]
            ELSE IF Uint32Big(Slice(b, 5 + dl, 4))
                      \/ Uint32(Slice(b, 5 + dl, 4)) > Len(b) - (8 + dl)
            THEN [err |-> "invalid public key length", n |-> 8 + dl, val |-> NoSignature]
            ELSE
                LET pl == Uint32(Slice(b, 5 + dl, 4))
                IN  [err |-> "none",
                     n |-> IF Len(b) < 9 + dl + pl THEN 8 + dl + pl ELSE 9 + dl + pl,
                     val |-> [Data |-> Slice(b, 5, dl), PubKey |-> Slice(b, 9 + dl, pl),
                              PubKeyType |-> IF Len(b) < 9 + dl + pl THEN 0
                                             ELSE b[9 + dl + pl]]]

\* Signature.ReadFrom: fails if a length exceeds the rest of the buffer; n is
\* the number of bytes of the fields read
SignatureReadFrom(b) ==
    IF Len(b) < 4 THEN [err |-> "EOF", n |-> 0, val |-> NoSignature]
    ELSE IF Uint32Big(Slice(b, 1, 4)) \/ Uint32(Slice(b, 1, 4)) > Len(b) - 4
    THEN [err |-> "invalid signature length", n |-> 4, val |-> NoSignature]
    ELSE
        LET dl == Uint32(Slice(b, 1, 4))
        IN  IF Len(b) < 8 + dl THEN [err |-> "EOF", n |-> 4 + dl, val |-> NoSignature]
            ELSE IF Uint32Big(Slice(b, 5 + dl, 4))
                      \/ Uint32(Slice(b, 5 + dl, 4)) > Len(b) - (8 + dl)
            THEN [err |-> "invalid public key length", n |-> 8 + dl, val |-> NoSignature]
            ELSE
                LET pl == Uint32(Slice(b, 5 + dl, 4))
                IN  IF Len(b) < 9 + dl + pl
                    THEN [err |-> "EOF", n |-> 8 + dl + pl, val |-> NoSignature]
                    ELSE [err |-> "none", n |-> 9 + dl + pl,
                          val |-> [Data |-> Slice(b, 5, dl), PubKey |-> Slice(b, 9 + dl, pl),
                                   PubKeyType |-> b[9 + dl + pl]]]

\* the u8 of an AckStatus
AckStatusByte(st) == CASE st = "Disagree" -> 0 [] st = "Agree" -> 1 [] st = "Diverge" -> 2

NoVote == [Signature |-> NoSignature, AckStatus |-> "Disagree", AppHash |-> << >>]

\* VoteInfo.MarshalBinary: Signature, AckStatus u8, and AppHash if Diverge;
\* an error if AckStatus is Diverge and AppHash is nil (<< >>)
VoteMarshalBinary(v) ==
    IF v.AckStatus = "Diverge" /\ v.AppHash = << >>
    THEN [err |-> "missing app hash", data |-> << >>]
    ELSE [err |-> "none",
          data |-> SignatureBytes(v.Signature) \o << AckStatusByte(v.AckStatus) >>
                       \o (IF v.AckStatus = "Diverge" THEN v.AppHash ELSE << >>)]

\* VoteInfo.UnmarshalBinary on the bytes that start a buffer; n is the number
\* of bytes the vote takes
VoteUnmarshalBinary(b) ==
    LET s == SignatureReadFrom(b)
    IN  IF s.err # "none" THEN [err |-> s.err, n |-> s.n, val |-> NoVote]
        ELSE IF Len(b) < s.n + 1 THEN [err |-> "EOF", n |-> s.n, val |-> NoVote]
        ELSE IF b[s.n + 1] > 2
        THEN [err |-> "invalid ack status", n |-> s.n + 1, val |-> NoVote]
        ELSE IF b[s.n + 1] = 2 /\ Len(b) < s.n + 1 + HashLen
        THEN [err |-> "EOF", n |-> s.n + 1, val |-> NoVote]
        ELSE [err |-> "none",
              n |-> IF b[s.n + 1] = 2 THEN s.n + 1 + HashLen ELSE s.n + 1,
              val |-> [Signature |-> s.val,
                       AckStatus |-> CASE b[s.n + 1] = 0 -> "Disagree"
                                       [] b[s.n + 1] = 1 -> "Agree"
                                       [] OTHER -> "Diverge",
                       AppHash |-> IF b[s.n + 1] = 2 THEN Slice(b, s.n + 2, HashLen)
                                   ELSE << >>]]

RECURSIVE EncodeVotes(_)
\* the concatenated votes of a CommitInfo; an error if one does not marshal
EncodeVotes(votes) ==
    IF votes = << >> THEN [err |-> "none", data |-> << >>]
    ELSE LET h == VoteMarshalBinary(Head(votes))
             t == EncodeVotes(Tail(votes))
         IN  IF h.err # "none" THEN h
             ELSE IF t.err # "none" THEN t
             ELSE [err |-> "none", data |-> h.data \o t.data]

\* CommitInfo.MarshalBinary: AppHash, len(Votes) u32, the votes
CommitMarshalBinary(c) ==
    LET vs == EncodeVotes(c.Votes)
    IN  IF vs.err # "none" THEN vs
        ELSE [err |-> "none", data |-> c.AppHash \o PutUint32(Len(c.Votes)) \o vs.data]

RECURSIVE DecodeVotes(_, _)
\* k votes read from the start of b
DecodeVotes(b, k) ==
    IF k = 0 THEN [err |-> "none", votes |-> << >>]
    ELSE LET h == VoteUnmarshalBinary(b)
         IN  IF h.err # "none" THEN [err |-> h.err, votes |-> << >>]
             ELSE LET t == DecodeVotes(SubSeq(b, h.n + 1, Len(b)), k - 1)
                  IN  IF t.err # "none" THEN t
                      ELSE [err |-> "none", votes |-> << h.val >> \o t.votes]

\* CommitInfo.UnmarshalBinary
CommitUnmarshalBinary(b) ==
    IF Len(b) < HashLen + 4 THEN [err |-> "EOF", val |-> << >>]
    ELSE IF Uint32Big(Slice(b, HashLen + 1, 4))
    THEN [err |-> "invalid vote count", val |-> << >>]
    ELSE LET vs == DecodeVotes(SubSeq(b, HashLen + 5, Len(b)),
                               Uint32(Slice(b, HashLen + 1, 4)))
         IN  IF vs.err # "none" THEN [err |-> vs.err, val |-> << >>]
             ELSE [err |-> "none",
                   val |-> [AppHash |-> Slice(b, 1, HashLen), Votes |-> vs.votes]]

\* ------------------------------------------------------------------------
\* Votes: signing and verifying
\* ------------------------------------------------------------------------
\* variant: the app hash is part of the digest whenever one is given
VoteDigestWithEvidence(blkID, ack, appHash) ==
    blkID \o << IF ack THEN 1 ELSE 0 >> \o appHash

\* the bytes a vote signs: the block id, the ack flag and, for a positive
\* vote, the app hash (nil: << >>)
VoteDigest(blkID, ack, appHash) ==
    blkID \o << IF ack THEN 1 ELSE 0 >> \o (IF ack THEN appHash ELSE << >>)

\* privKey.Sign(msg) with the key of k: the digest of key and message stands
\* for the signature
SignBytes(k, msg) == HashBytes(PubKeyOf(k) \o msg)

\* pubKey.Verify(msg, sig)
VerifySig(pub, msg, data) ==
    \E k \in Nodes : PubKeyOf(k) = pub /\ data = SignBytes(k, msg)

\* variant: a positive vote without app hash is signed
SignVoteUnchecked(blkID, ack, appHash, key) ==
    IF key = "" THEN [err |-> "nil private key", sig |-> NoSignature]
    ELSE [err |-> "none",
          sig |-> [Data |-> SignBytes(key, VoteDigest(blkID, ack, appHash)),
                   PubKey |-> PubKeyOf(key), PubKeyType |-> 1]]

\* SignVote(blkID, ack, appHash, privKey)
SignVote(blkID, ack, appHash, key) ==
    IF key = "" THEN [err |-> "nil private key", sig |-> NoSignature]
    ELSE IF ack /\ appHash = << >>
    THEN [err |-> "app hash is required for ack", sig |-> NoSignature]
    ELSE [err |-> "none",
          sig |-> [Data |-> SignBytes(key, VoteDigest(blkID, ack, appHash)),
                   PubKey |-> PubKeyOf(key), PubKeyType |-> 1]]

\* variant: the signature is accepted under the key of any validator
VoteVerifyAnyKey(v, blkID, appHash) ==
    IF v.AckStatus = "Diverge" /\ v.AppHash = << >> THEN "missing app hash"
    ELSE IF \E k \in Nodes :
               VerifySig(PubKeyOf(k),
                         CASE v.AckStatus = "Agree" -> VoteDigest(blkID, TRUE, appHash)
                           [] v.AckStatus = "Disagree" -> VoteDigest(blkID, FALSE, << >>)
                           [] OTHER -> VoteDigest(blkID, FALSE, v.AppHash),
                         v.Signature.Data)
    THEN "none"
    ELSE "invalid signature"

\* variant: the digest of a Diverge vote is built from whatever AppHash holds
VoteVerifyNoPresenceCheck(v, blkID, appHash) ==
    IF VerifySig(v.Signature.PubKey,
                 CASE v.AckStatus = "Agree" -> VoteDigest(blkID, TRUE, appHash)
                   [] v.AckStatus = "Disagree" -> VoteDigest(blkID, FALSE, << >>)
                   [] OTHER -> VoteDigest(blkID, FALSE, v.AppHash),
                 v.Signature.Data)
    THEN "none"
    ELSE "invalid signature"

\* VoteInfo.Verify(blkID, appHash): the error returned ("none": nil)
VoteVerify(v, blkID, appHash) ==
    IF v.AckStatus = "Diverge" /\ v.AppHash = << >> THEN "missing app hash"
    ELSE IF VerifySig(v.Signature.PubKey,
                      CASE v.AckStatus = "Agree" -> VoteDigest(blkID, TRUE, appHash)
                        [] v.AckStatus = "Disagree" -> VoteDigest(blkID, FALSE, << >>)
                        [] OTHER -> VoteDigest(blkID, FALSE, v.AppHash),
                      v.Signature.Data)
    THEN "none"
    ELSE "invalid signature"

\* ------------------------------------------------------------------------
\* Votes: signing, verifying, encoding and decoding
\* ------------------------------------------------------------------------
VoteBlkID == HashOf(40)

\* the calls of SignVote: positive and negative votes, with and without app
\* hash, under the key of a validator or without key
SignInputs == [ack : BOOLEAN, appHash : {<< >>, HashOf(10)}, key : Nodes \cup {""}]

\* signatures that SignVote did not make
ForeignSigs ==
    {NoSignature, [Data |-> << 115, 105, 103 >>, PubKey |-> PubKeyOf("B"), PubKeyType |-> 1]}

VoteAppHashes == {<< >>, HashOf(10), HashOf(20)}

\* the second vote of a CommitInfo with two votes
SecondVote ==
    [Signature |-> [Data |-> << 115, 105, 103 >>, PubKey |-> PubKeyOf("B"), PubKeyType |-> 1],
     AckStatus |-> "Diverge", AppHash |-> HashOf(20)]

\* the CommitInfo with the first k of the votes v and SecondVote
CommitOf(k, v) ==
    [AppHash |-> IF v.AppHash = << >> THEN Zeros(HashLen) ELSE v.AppHash,
     Votes |-> SubSeq(<< v, SecondVote >>, 1, k)]

\* the record of v that is written as kind
EncodedValue(kind, v) ==
    CASE kind = "sig" -> v.Signature
      [] kind = "vote" -> v
      [] kind = "commit0" -> CommitOf(0, v)
      [] kind = "commit1" -> CommitOf(1, v)
      [] kind = "commit2" -> CommitOf(2, v)

\* Signature.WriteTo, VoteInfo.MarshalBinary or CommitInfo.MarshalBinary
EncodeAs(kind, v) ==
    CASE kind = "sig" -> [err |-> "none", data |-> SignatureBytes(v.Signature)]
      [] kind = "vote" -> VoteMarshalBinary(v)
      [] OTHER -> CommitMarshalBinary(EncodedValue(kind, v))

\* Signature.ReadFrom, VoteInfo.UnmarshalBinary or CommitInfo.UnmarshalBinary;
\* only Signature.ReadFrom reports a byte count
DecodeAs(kind, b) ==
    CASE kind = "sig" -> SignatureReadFrom(b)
      [] kind = "vote" -> [err |-> VoteUnmarshalBinary(b).err, n |-> 0,
                           val |-> VoteUnmarshalBinary(b).val]
      [] OTHER -> [err |-> CommitUnmarshalBinary(b).err, n |-> 0,
                   val |-> CommitUnmarshalBinary(b).val]

VoteInit ==
    /\ vin \in IF focus = "vote" THEN SignInputs
               ELSE {[ack |-> FALSE, appHash |-> << >>, key |-> ""]}
    /\ vsig = [err |-> "unread", sig |-> NoSignature]
    /\ vvote = NoVote
    /\ vtamper = "none"
    /\ vver = [arg |-> << >>, err |-> "unread"]
    /\ venc = [kind |-> "none", err |-> "unread", data |-> << >>, n |-> 0]
    /\ vdec = [cut |-> 0, err |-> "unread", n |-> 0, val |-> << >>]
    /\ vpc = "new"

\* SignVote(blkID, ack, appHash, privKey)
VoteSign ==
    /\ focus = "vote" /\ vpc = "new"
    /\ vsig' = SignVote(VoteBlkID, vin.ack, vin.appHash, vin.key)
    /\ vpc' = "signed"
    /\ UNCHANGED << vin, vvote, vtamper, vver, venc, vdec, svars, gvars, cvars, mvars, bvars, dvars, pvars, nvars >>

\* a VoteInfo is built around the signature SignVote returned, or around a
\* signature that came from elsewhere
VoteBuild(st, ah) ==
    /\ focus = "vote" /\ vpc \in {"new", "signed"}
    /\ vpc = "signed" => vsig.err = "none"
    /\ \E sig \in IF vpc = "signed" THEN {vsig.sig} ELSE ForeignSigs :
           vvote' = [Signature |-> sig, AckStatus |-> st, AppHash |-> ah]
    /\ vpc' = "built"
    /\ UNCHANGED << vin, vsig, vtamper, vver, venc, vdec, svars, gvars, cvars, mvars, bvars, dvars, pvars, nvars >>

\* vote.Signature.Data[i]++
VoteCorrupt(i) ==
    /\ focus = "vote" /\ vpc = "built" /\ vtamper = "none"
    /\ i \in 1..Len(vvote.Signature.Data)
    /\ vvote' = [vvote EXCEPT !.Signature.Data[i] = (@ + 1) % 256]
    /\ vtamper' = "data"
    /\ UNCHANGED << vin, vsig, vver, venc, vdec, vpc, svars, gvars, cvars, mvars, bvars, dvars, pvars, nvars >>

\* vote.Signature.PubKey = the public key of another validator
VoteReplaceKey(k) ==
    /\ focus = "vote" /\ vpc = "built" /\ vtamper = "none"
    /\ PubKeyOf(k) # vvote.Signature.PubKey
    /\ vvote' = [vvote EXCEPT !.Signature.PubKey = PubKeyOf(k)]
    /\ vtamper' = "pubkey"
    /\ UNCHANGED << vin, vsig, vver, venc, vdec, vpc, svars, gvars, cvars, mvars, bvars, dvars, pvars, nvars >>

\* vote.Verify(blkID, appHash)
VoteVerifyCall(ah) ==
    /\ focus = "vote" /\ vpc = "built"
    /\ vver' = [arg |-> ah, err |-> VoteVerify(vvote, VoteBlkID, ah)]
    /\ vpc' = "verified"
    /\ UNCHANGED << vin, vsig, vvote, vtamper, venc, vdec, svars, gvars, cvars, mvars, bvars, dvars, pvars, nvars >>

\* the signature, the vote, or a CommitInfo with no, one or two votes is written
VoteEncode(kind) ==
    /\ focus = "vote" /\ vpc = "built" /\ vtamper = "none"
    /\ \E e \in {EncodeAs(kind, vvote)} :
           venc' = [kind |-> kind, err |-> e.err, data |-> e.data, n |-> Len(e.data)]
    /\ vpc' = "encoded"
    /\ UNCHANGED << vin, vsig, vvote, vtamper, vver, vdec, svars, gvars, cvars, mvars, bvars, dvars, pvars, nvars >>

\* the bytes written, or all but the last cut of them, are read back
VoteDecode(cut) ==
    /\ focus = "vote" /\ vpc = "encoded" /\ venc.err = "none"
    /\ cut <= Len(venc.data)
    /\ \E d \in {DecodeAs(venc.kind, SubSeq(venc.data, 1, Len(venc.data) - cut))} :
           vdec' = [cut |-> cut, err |-> d.err, n |-> d.n, val |-> d.val]
    /\ vpc' = "decoded"
    /\ UNCHANGED << vin, vsig, vvote, vtamper, vver, venc, svars, gvars, cvars, mvars, bvars, dvars, pvars, nvars >>

VoteNext ==
    \/ VoteSign
    \/ \E st \in {"Disagree", "Agree", "Diverge"}, ah \in VoteAppHashes : VoteBuild(st, ah)
    \/ \E i \in 1..HashLen : VoteCorrupt(i)
    \/ \E k \in Nodes : VoteReplaceKey(k)
    \/ \E ah \in VoteAppHashes \ {<< >>} : VoteVerifyCall(ah)
    \/ \E kind \in {"sig", "vote", "commit0", "commit1", "commit2"} : VoteEncode(kind)
    \/ \E cut \in {0, 1} : VoteDecode(cut)

\* ------------------------------------------------------------------------
\* Chain-state store: GetChainState, SetChainState
\* ------------------------------------------------------------------------
\* the SetChainState calls of a behaviour
ChainCalls == 1..MaxSetCalls

NoChainState == [height |-> -1, appHash |-> << >>]

NoChainTx == [pc |-> "idle", height |-> 0, appHash |-> << >>, upd |-> {}, ins |-> FALSE]

\* GetChainState on the rows the SELECT returns
GetChainState(rows) ==
    IF Cardinality(rows) = 0 THEN [err |-> "none", height |-> -1, appHash |-> << >>]
    ELSE IF Cardinality(rows) = 1
    THEN LET row == CHOOSE r \in rows : TRUE
         IN  [err |-> "none", height |-> row.height, appHash |-> row.appHash]
    ELSE [err |-> "expected at most one row", height |-> 0, appHash |-> << >>]

ChainInit ==
    /\ chainRows = {}
    /\ chainTx = [c \in ChainCalls |-> NoChainTx]
    /\ chainLast = NoChainState
    /\ chainGet = [err |-> "unread", height |-> 0, appHash |-> << >>, last |-> NoChainState]

\* SetChainState: db.BeginTx(ctx)
ChainBegin(c, h) ==
    /\ focus = "chain" /\ chainTx[c].pc = "idle"
    /\ chainTx' = [chainTx EXCEPT ![c] = [NoChainTx EXCEPT !.pc = "begun",
                                                          !.height = h,
                                                          !.appHash = HashOf(h)]]
    /\ UNCHANGED << chainRows, chainLast, chainGet, svars, gvars, cvars, mvars, bvars, vvars, pvars, nvars >>

\* SetChainState: tx.Execute(ctx, setChainState, height, appHash). The UPDATE
\* has no WHERE clause: it changes every committed row, and waits while
\* another transaction holds a change of one of them.
ChainUpdate(c) ==
    /\ focus = "chain" /\ chainTx[c].pc = "begun"
    /\ \A o \in ChainCalls \ {c} :
           chainTx[o].pc \in {"updated", "inserted"}
               => chainTx[o].upd \cap {r.id : r \in chainRows} = {}
    /\ chainTx' = [chainTx EXCEPT ![c].pc = "updated",
                                  ![c].upd = {r.id : r \in chainRows}]
    /\ UNCHANGED << chainRows, chainLast, chainGet, svars, gvars, cvars, mvars, bvars, vvars, pvars, nvars >>

\* SetChainState: res.Status.RowsAffected == 0, so
\* tx.Execute(ctx, insertChainState, height, appHash)
ChainInsert(c) ==
    /\ focus = "chain" /\ chainTx[c].pc = "updated"
    /\ chainTx[c].upd = {}
    /\ chainTx' = [chainTx EXCEPT ![c].pc = "inserted", ![c].ins = TRUE]
    /\ UNCHANGED << chainRows, chainLast, chainGet, svars, gvars, cvars, mvars, bvars, vvars, pvars, nvars >>

\* SetChainState: tx.Commit(ctx) returns nil
ChainCommit(c) ==
    /\ focus = "chain"
    /\ \/ chainTx[c].pc = "updated" /\ chainTx[c].upd # {}
       \/ chainTx[c].pc = "inserted"
    /\ chainRows' =
           {IF r.id \in chainTx[c].upd
            THEN [r EXCEPT !.height = chainTx[c].height, !.appHash = chainTx[c].appHash]
            ELSE r : r \in chainRows}
           \cup (IF chainTx[c].ins
                 THEN {[id |-> c, height |-> chainTx[c].height,
                        appHash |-> chainTx[c].appHash]}
                 ELSE {})
    /\ chainTx' = [chainTx EXCEPT ![c].pc = "done"]
    /\ chainLast' = [height |-> chainTx[c].height, appHash |-> chainTx[c].appHash]
    /\ UNCHANGED << chainGet, svars, gvars, cvars, mvars, bvars, vvars, pvars, nvars >>

\* SetChainState: Execute or Commit returns an error; the deferred
\* tx.Rollback runs
ChainFail(c) ==
    /\ focus = "chain" /\ chainTx[c].pc \in {"begun", "updated", "inserted"}
    /\ chainTx' = [chainTx EXCEPT ![c].pc = "failed", ![c].upd = {}, ![c].ins = FALSE]
    /\ UNCHANGED << chainRows, chainLast, chainGet, svars, gvars, cvars, mvars, bvars, vvars, pvars, nvars >>

\* GetChainState(ctx, db)
ChainGet ==
    /\ focus = "chain"
    /\ \E g \in {GetChainState(chainRows)} :
           chainGet' = [err |-> g.err, height |-> g.height, appHash |-> g.appHash,
                        last |-> chainLast]
    /\ UNCHANGED << chainRows, chainTx, chainLast, svars, gvars, cvars, mvars, bvars, vvars, pvars, nvars >>

ChainNext ==
    \/ \E c \in ChainCalls, h \in ChainCalls : ChainBegin(c, h)
    \/ \E c \in ChainCalls : ChainUpdate(c)
    \/ \E c \in ChainCalls : ChainInsert(c)
    \/ \E c \in ChainCalls : ChainCommit(c)
    \/ \E c \in ChainCalls : ChainFail(c)
    \/ ChainGet

\* ------------------------------------------------------------------------
\* Consensus parameter store: StoreParams, StoreDiff, LoadParams
\* ------------------------------------------------------------------------
maxBlockSizeKey == "max_block_size"
joinExpiryKey == "join_expiry"
voteExpiryKey == "vote_expiry"
disabledGasKey == "disabled_gas_costs"

\* the common.NetworkParameters of the calls
ParamsBase ==
    [MaxBlockSize |-> 6291456, JoinExpiry |-> 14400, VoteExpiry |-> 108000,
     DisabledGasCosts |-> FALSE]

NetParams ==
    {ParamsBase,
     [ParamsBase EXCEPT !.MaxBlockSize = -1],
     [ParamsBase EXCEPT !.JoinExpiry = 0],
     [ParamsBase EXCEPT !.VoteExpiry = 14400],
     [ParamsBase EXCEPT !.DisabledGasCosts = TRUE],
     [MaxBlockSize |-> -1, JoinExpiry |-> 0, VoteExpiry |-> 14400, DisabledGasCosts |-> TRUE]}

NoParams == [MaxBlockSize |-> 0, JoinExpiry |-> 0, VoteExpiry |-> 0, DisabledGasCosts |-> FALSE]

\* the rows StoreParams upserts
ParamRowsOf(params) ==
    [k \in {maxBlockSizeKey, joinExpiryKey, voteExpiryKey, disabledGasKey} |->
        CASE k = maxBlockSizeKey -> PutUint64(params.MaxBlockSize)
          [] k = joinExpiryKey -> PutUint64(params.JoinExpiry)
          [] k = voteExpiryKey -> PutUint64(params.VoteExpiry)
          [] OTHER -> << IF params.DisabledGasCosts THEN 1 ELSE 0 >>]

\* variant: the gas switch is not compared
diffWithoutGas(original, new) ==
    [k \in {k \in {maxBlockSizeKey, joinExpiryKey, voteExpiryKey} :
               CASE k = maxBlockSizeKey -> original.MaxBlockSize # new.MaxBlockSize
                 [] k = joinExpiryKey -> original.JoinExpiry # new.JoinExpiry
                 [] OTHER -> original.VoteExpiry # new.VoteExpiry} |->
        ParamRowsOf(new)[k]]

\* diff(original, new): the rows of the fields that differ
diff(original, new) ==
    [k \in {k \in {maxBlockSizeKey, joinExpiryKey, voteExpiryKey, disabledGasKey} :
               CASE k = maxBlockSizeKey -> original.MaxBlockSize # new.MaxBlockSize
                 [] k = joinExpiryKey -> original.JoinExpiry # new.JoinExpiry
                 [] k = voteExpiryKey -> original.VoteExpiry # new.VoteExpiry
                 [] OTHER -> original.DisabledGasCosts # new.DisabledGasCosts} |->
        ParamRowsOf(new)[k]]

\* upsertParam for every row of upd
Upsert(rows, upd) ==
    [k \in DOMAIN rows \cup DOMAIN upd |-> IF k \in DOMAIN upd THEN upd[k] ELSE rows[k]]

\* LoadParams on the rows the SELECT returns
LoadParams(rows) ==
    IF DOMAIN rows = {} THEN [err |-> "params not found", val |-> NoParams]
    ELSE IF Cardinality(DOMAIN rows) # 4
    THEN [err |-> "expected four rows", val |-> NoParams]
    ELSE [err |-> "none",
          val |-> [MaxBlockSize |-> Int64(rows[maxBlockSizeKey]),
                   JoinExpiry |-> Int64(rows[joinExpiryKey]),
                   VoteExpiry |-> Int64(rows[voteExpiryKey]),
                   DisabledGasCosts |-> rows[disabledGasKey][1] = 1]]

NoParamCall ==
    [op |-> "none", same |-> FALSE, began |-> FALSE, err |-> "none", val |-> NoParams]

ParamsInit ==
    /\ paramRows = << >>
    /\ paramHist = [last |-> NoParams, by |-> "none", inStep |-> TRUE]
    /\ paramCall = NoParamCall

\* StoreParams(ctx, db, params); ok: the transaction commits, otherwise an
\* Execute or the Commit fails and the deferred Rollback runs
ParamsStore(params, ok) ==
    /\ focus = "params"
    /\ paramRows' = IF ok THEN Upsert(paramRows, ParamRowsOf(params)) ELSE paramRows
    /\ paramHist' = IF ok THEN [last |-> params, by |-> "StoreParams", inStep |-> TRUE]
                    ELSE paramHist
    /\ paramCall' = [NoParamCall EXCEPT !.op = "StoreParams", !.began = TRUE,
                                        !.err = IF ok THEN "none" ELSE "db error"]
    /\ UNCHANGED << dvars, nvars, svars, gvars, cvars, mvars, bvars, vvars >>

\* StoreDiff(ctx, db, original, new)
ParamsStoreDiff(original, new, ok) ==
    /\ focus = "params"
    /\ \E d \in {diff(original, new)} :
           IF DOMAIN d = {}
           THEN /\ ok
                /\ paramRows' = paramRows
                /\ paramHist' = [paramHist EXCEPT
                                     !.last = IF LoadParams(paramRows).err = "none"
                                              THEN new ELSE @,
                                     !.inStep = @ /\ LoadParams(paramRows).err = "none"
                                                  /\ LoadParams(paramRows).val = original]
                /\ paramCall' = [NoParamCall EXCEPT !.op = "StoreDiff", !.same = (original = new)]
           ELSE /\ paramRows' = IF ok THEN Upsert(paramRows, d) ELSE paramRows
                /\ paramHist' = IF ok
                                THEN [last |-> new, by |-> "StoreDiff",
                                      inStep |-> paramHist.inStep
                                                 /\ LoadParams(paramRows).err = "none"
                                                 /\ LoadParams(paramRows).val = original]
                                ELSE paramHist
                /\ paramCall' = [NoParamCall EXCEPT !.op = "StoreDiff",
                                     !.same = (original = new), !.began = TRUE,
                                     !.err = IF ok THEN "none" ELSE "db error"]
    /\ UNCHANGED << dvars, nvars, svars, gvars, cvars, mvars, bvars, vvars >>

\* LoadParams(ctx, db)
ParamsLoad ==
    /\ focus = "params"
    /\ \E l \in {LoadParams(paramRows)} :
           paramCall' = [NoParamCall EXCEPT !.op = "LoadParams", !.err = l.err, !.val = l.val]
    /\ UNCHANGED << paramRows, paramHist, dvars, nvars, svars, gvars, cvars, mvars, bvars, vvars >>

ParamsNext ==
    \/ \E params \in NetParams, ok \in BOOLEAN : ParamsStore(params, ok)
    \/ \E original, new \in NetParams, ok \in BOOLEAN : ParamsStoreDiff(original, new, ok)
    \/ ParamsLoad

\* ------------------------------------------------------------------------
\* announceBlkProp
\* ------------------------------------------------------------------------
\* n.host.ID() of the announcing node
AnnouncerID == "A"

RECURSIVE PeerLists(_)
\* the lists of at most n different peers, the node itself among them or not
PeerLists(n) ==
    IF n = 0 THEN {<< >>}
    ELSE PeerLists(n - 1)
         \cup {Append(l, p) : l \in {l \in PeerLists(n - 1) : Len(l) = n - 1},
                              p \in Nodes \cup ExtPeers}

NoDuplicates(l) == \A i, j \in 1..Len(l) : i # j => l[i] # l[j]

\* variant: the loop ends at the first peer that cannot be reached
AnnounceAfterStopsOnError(at, n, ok) == IF at = n \/ ~ok THEN "done" ELSE "loop"

\* where announceBlkProp is after the peer at index at of n: both the skipped
\* peer and the failed advertisement 'continue'
AnnounceAfter(at, n, ok) == IF at = n THEN "done" ELSE "loop"

AnnounceInit ==
    /\ annCall \in IF focus = "announce"
                   THEN {[blk |-> b, peers |-> l] :
                            b \in {BlkA, BlkB},
                            l \in {l \in PeerLists(MaxPeers) : NoDuplicates(l)}}
                   ELSE {[blk |-> NoBlock, peers |-> << >>]}
    /\ annAt = 0
    /\ annLog = << >>
    /\ annpc = "idle"

\* announceBlkProp up to the loop: return if there are no peers
AnnounceStart ==
    /\ focus = "announce" /\ annpc = "idle"
    /\ annpc' = IF Len(annCall.peers) = 0 THEN "done" ELSE "loop"
    /\ annAt' = IF Len(annCall.peers) = 0 THEN 0 ELSE 1
    /\ UNCHANGED << annCall, annLog, dvars, pvars, svars, gvars, cvars, mvars, bvars, vvars >>

\* one round of the loop: skip the node itself, otherwise advertiseToPeer,
\* which returns an error or not
AnnouncePeer(ok) ==
    /\ focus = "announce" /\ annpc = "loop"
    /\ IF annCall.peers[annAt] = AnnouncerID
       THEN ok /\ UNCHANGED annLog
       ELSE annLog' = Append(annLog,
                             [peer |-> annCall.peers[annAt],
                              propID |-> BlockPropMarshalBinary(PropOf(annCall.blk)),
                              rawBlk |-> EncodeBlock(annCall.blk),
                              ok |-> ok])
    /\ annpc' = AnnounceAfter(annAt, Len(annCall.peers), ok)
    /\ annAt' = IF annAt = Len(annCall.peers) THEN annAt ELSE annAt + 1
    /\ UNCHANGED << annCall, dvars, pvars, svars, gvars, cvars, mvars, bvars, vvars >>

AnnounceNext ==
    \/ AnnounceStart
    \/ \E ok \in BOOLEAN : AnnouncePeer(ok)

\* ------------------------------------------------------------------------
\* Gossip loops: initial state
\* ------------------------------------------------------------------------
NoTurn == [node |-> "", topic |-> "", from |-> [kind |-> "", key |-> << >>],
           data |-> << >>, role |-> "", calls |-> << >>]

GossipInit ==
    /\ focus \in Topics \cup {"stream", "codec", "merkle", "block", "vote", "chain", "params", "reannounce", "announce", "teardown"}
    /\ ctxDone = [n \in Nodes |-> FALSE]
    /\ chanq = [n \in Nodes |-> [t \in Topics |-> << >>]]
    /\ pubpc = [n \in Nodes |-> [t \in Topics |-> "run"]]
    /\ subq = [n \in Nodes |-> [t \in Topics |-> << >>]]
    /\ subpc = [n \in Nodes |-> [t \in Topics |-> "run"]]
    /\ last = NoTurn
    /\ ceOpen = [n \in Nodes |-> FALSE]
    /\ dpend = [n \in Nodes |-> 0]
    /\ nsent = 0

Init == GossipInit /\ StreamInit /\ CodecInit /\ MerkleInit /\ BlockInit /\ VoteInit /\ ChainInit /\ ParamsInit /\ AnnounceInit

\* ------------------------------------------------------------------------
\* Producers: the CE's callbacks into the node
\* ------------------------------------------------------------------------

\* a send on a channel of node n returns once the channel takes the value
ChanSend(n, t, v) ==
    /\ Len(chanq[n][t]) < ChanCap
    /\ chanq' = [chanq EXCEPT ![n][t] = Append(@, v)]

Produce(n, t, v) ==
    /\ t = focus
    /\ nsent < MaxMsgs
    /\ nsent' = nsent + 1
    /\ ChanSend(n, t, v)
    /\ UNCHANGED << focus, ctxDone, pubpc, subq, subpc, last, ceOpen, dpend, svars, cvars, tvars >>

sendACK(n) ==
    \E ack \in BOOLEAN :
        Produce(n, TopicACKs,
                SendACKRes(n, ack, 1, HashOf(1), IF ack THEN HashOf(6) ELSE << >>, << 1 >>))

sendDiscoveryRequest(n) == Produce(n, TopicDiscReq, << >>)

sendReset(n) == Produce(n, TopicReset, [ToHeight |-> 2, TxIDs |-> << HashOf(1) >>])

\* ------------------------------------------------------------------------
\* Publish tasks
\* ------------------------------------------------------------------------

\* variant: every topic publishes the empty payload of the discovery request
PublishPayloadNil(t, v) == << >>

\* the payload the publish task of a topic makes of a value from its channel
PublishPayload(t, v) ==
    CASE t = TopicACKs -> AckResMarshalBinary(v)
      [] t = TopicDiscReq -> << >>
      [] t = TopicDiscResp -> DiscResMarshalBinary(v)
      [] OTHER -> ConsensusResetBytes(v)

\* the subscription of node m to topic t has not been cancelled
SubLive(m, t) == subpc[m][t] \notin {"cancelled", "done"}

\* pubsub: a published message reaches every live subscription of the topic,
\* the publisher's own included
Deliver(q, t, msg) ==
    [m \in Nodes |->
        IF SubLive(m, t) THEN [q[m] EXCEPT ![t] = Append(@, msg)] ELSE q[m]]

\* the topics whose tasks a behaviour takes down: the topic in focus; the
\* discovery-response topic with the discovery requests, whose receive task
\* feeds discResp; every topic when the focus is the teardown itself
InPlay(t) ==
    \/ t = focus
    \/ focus = "teardown"
    \/ focus = TopicDiscReq /\ t = TopicDiscResp

\* variant: the task takes a value from its channel and goes on without
\* publishing it
PubTakeSkip(n, t, ok) ==
    /\ pubpc[n][t] = "run"
    /\ chanq[n][t] # << >>
    /\ ok
    /\ chanq' = [chanq EXCEPT ![n][t] = Tail(@)]
    /\ UNCHANGED << focus, ctxDone, pubpc, subq, subpc, last, ceOpen, dpend, nsent, svars, cvars, tvars >>

\* variant: a value taken from the channel is published twice
PubTakeTwice(n, t, ok) ==
    /\ pubpc[n][t] = "run"
    /\ chanq[n][t] # << >>
    /\ ok \/ nsent < MaxMsgs
    /\ nsent' = IF ok THEN nsent ELSE nsent + 1
    /\ chanq' = [chanq EXCEPT ![n][t] = Tail(@)]
    /\ LET msg == [from |-> PeerIDOf(n), data |-> PublishPayload(t, Head(chanq[n][t]))]
       IN  IF ok THEN
               /\ subq' = Deliver(Deliver(subq, t, msg), t, msg)
               /\ UNCHANGED pubpc
           ELSE
               /\ pubpc' = [pubpc EXCEPT ![n][t] = "exiting"]
               /\ UNCHANGED subq
    /\ UNCHANGED << focus, ctxDone, subpc, last, ceOpen, dpend, svars, cvars, tvars >>

\* variant: the task goes on with the next value when Publish fails
PubTakeGoesOn(n, t, ok) ==
    /\ pubpc[n][t] = "run"
    /\ chanq[n][t] # << >>
    /\ ok \/ nsent < MaxMsgs
    /\ nsent' = IF ok THEN nsent ELSE nsent + 1
    /\ chanq' = [chanq EXCEPT ![n][t] = Tail(@)]
    /\ LET data == PublishPayload(t, Head(chanq[n][t]))
       IN  IF ok THEN subq' = Deliver(subq, t, [from |-> PeerIDOf(n), data |-> data])
           ELSE UNCHANGED subq
    /\ UNCHANGED << focus, ctxDone, pubpc, subpc, last, ceOpen, dpend, svars, cvars, tvars >>

\* the publish task takes a value from its channel and publishes it; when
\* Publish fails (ok is false) the task returns
PubTake(n, t, ok) ==
    /\ pubpc[n][t] = "run"
    /\ chanq[n][t] # << >>
    /\ ok \/ nsent < MaxMsgs
    /\ nsent' = IF ok THEN nsent ELSE nsent + 1
    /\ chanq' = [chanq EXCEPT ![n][t] = Tail(@)]
    /\ LET data == PublishPayload(t, Head(chanq[n][t]))
       IN  IF ok THEN
               /\ subq' = Deliver(subq, t, [from |-> PeerIDOf(n), data |-> data])
               /\ UNCHANGED pubpc
           ELSE
               /\ pubpc' = [pubpc EXCEPT ![n][t] = "exiting"]
               /\ UNCHANGED subq
    /\ UNCHANGED << focus, ctxDone, subpc, last, ceOpen, dpend, svars, cvars, tvars >>

\* the publish task sees ctx.Done() in its select
PubCtxDone(n, t) ==
    /\ pubpc[n][t] = "run"
    /\ ctxDone[n]
    /\ InPlay(t)
    /\ pubpc' = [pubpc EXCEPT ![n][t] = "exiting"]
    /\ UNCHANGED << focus, ctxDone, chanq, subq, subpc, last, ceOpen, dpend, nsent,
                    svars, cvars, tvars >>

\* variant: the topic is closed without waiting for subCanceled
PubCloseNoWait(n, t) ==
    /\ pubpc[n][t] = "exiting"
    /\ pubpc' = [pubpc EXCEPT ![n][t] = "closed"]
    /\ UNCHANGED << focus, ctxDone, chanq, subq, subpc, last, ceOpen, dpend, nsent,
                    svars, cvars, tvars >>

\* the deferred exit of the publish task: <-subCanceled returns once the
\* receive task has closed the channel, then the topic is closed
PubClose(n, t) ==
    /\ pubpc[n][t] = "exiting"
    /\ subpc[n][t] = "done"
    /\ pubpc' = [pubpc EXCEPT ![n][t] = "closed"]
    /\ UNCHANGED << focus, ctxDone, chanq, subq, subpc, last, ceOpen, dpend, nsent,
                    svars, cvars, tvars >>

\* the deferred exit of the publish task, last statement: n.wg.Done()
PubExit(n, t) ==
    /\ pubpc[n][t] = "closed"
    /\ pubpc' = [pubpc EXCEPT ![n][t] = "done"]
    /\ UNCHANGED << focus, ctxDone, chanq, subq, subpc, last, ceOpen, dpend, nsent,
                    svars, cvars, tvars >>

\* ------------------------------------------------------------------------
\* Receive tasks
\* ------------------------------------------------------------------------

\* variant: no message is taken for the node's own
FromSelfNever(me, msg) == FALSE

\* the message is the node's own: peer.ID(msg.From) == me
FromSelf(me, msg) == msg.from = me

\* variant: the role is not looked at
NotLeaderNever(r) == FALSE

\* We're only interested if we are the leader
NotLeader(r) == r # RoleLeader

\* variant: the error of UnmarshalBinary is not looked at
AckCallsUndecoded(me, r, msg) ==
    IF NotLeader(r) THEN << >>
    ELSE IF FromSelf(me, msg) THEN << >>
    ELSE LET d == AckResUnmarshalBinary(msg.data)
             k == PubKeyFromPeerID(msg.from)
         IN  IF k.err # "none" THEN << >>
             ELSE << [fn |-> "NotifyACK", key |-> k.key, arg |-> d.val] >>

\* variant: the ACK is handed over under the key its payload names
AckCallsPayloadKey(me, r, msg) ==
    IF NotLeader(r) THEN << >>
    ELSE IF FromSelf(me, msg) THEN << >>
    ELSE LET d == AckResUnmarshalBinary(msg.data)
             k == PubKeyFromPeerID(msg.from)
         IN  IF d.err # "none" THEN << >>
             ELSE IF k.err # "none" THEN << >>
             ELSE << [fn |-> "NotifyACK", key |-> d.val.PubKey, arg |-> d.val] >>

\* the calls the ACK receive task makes for a message
AckCalls(me, r, msg) ==
    IF NotLeader(r) THEN << >>
    ELSE IF FromSelf(me, msg) THEN << >>
    ELSE LET d == AckResUnmarshalBinary(msg.data)
             k == PubKeyFromPeerID(msg.from)
         IN  IF d.err # "none" THEN << >>
             ELSE IF k.err # "none" THEN << >>
             ELSE << [fn |-> "NotifyACK", key |-> k.key, arg |-> d.val] >>

\* variant: the role is not looked at in the discovery-response loop
DiscRespCallsAnyRole(me, r, msg) ==
    IF FromSelf(me, msg) THEN << >>
    ELSE LET d == DiscResUnmarshalBinary(msg.data)
             k == PubKeyFromPeerID(msg.from)
         IN  IF d.err # "none" THEN << >>
             ELSE IF k.err # "none" THEN << >>
             ELSE << [fn |-> "NotifyDiscoveryMessage", key |-> k.key,
                      arg |-> d.val.BestHeight] >>

\* the calls the discovery-response receive task makes for a message
DiscRespCalls(me, r, msg) ==
    IF NotLeader(r) THEN << >>
    ELSE IF FromSelf(me, msg) THEN << >>
    ELSE LET d == DiscResUnmarshalBinary(msg.data)
             k == PubKeyFromPeerID(msg.from)
         IN  IF d.err # "none" THEN << >>
             ELSE IF k.err # "none" THEN << >>
             ELSE << [fn |-> "NotifyDiscoveryMessage", key |-> k.key,
                      arg |-> d.val.BestHeight] >>

\* variant: the error of PubKeyFromPeerID is not looked at
ResetCallsAnyKey(me, msg) ==
    IF FromSelf(me, msg) THEN << >>
    ELSE LET d == ConsensusResetUnmarshalBinary(msg.data)
             k == PubKeyFromPeerID(msg.from)
         IN  IF d.err # "none" THEN << >>
             ELSE << [fn |-> "NotifyResetState", key |-> k.key, arg |-> d.val] >>

\* variant: the transaction ids of the reset are not handed on
ResetCallsNoTxIDs(me, msg) ==
    IF FromSelf(me, msg) THEN << >>
    ELSE LET d == ConsensusResetUnmarshalBinary(msg.data)
             k == PubKeyFromPeerID(msg.from)
         IN  IF d.err # "none" THEN << >>
             ELSE IF k.err # "none" THEN << >>
             ELSE << [fn |-> "NotifyResetState", key |-> k.key,
                      arg |-> [d.val EXCEPT !.TxIDs = << >>]] >>

\* the calls the consensus-reset receive task makes for a message
ResetCalls(me, msg) ==
    IF FromSelf(me, msg) THEN << >>
    ELSE LET d == ConsensusResetUnmarshalBinary(msg.data)
             k == PubKeyFromPeerID(msg.from)
         IN  IF d.err # "none" THEN << >>
             ELSE IF k.err # "none" THEN << >>
             ELSE << [fn |-> "NotifyResetState", key |-> k.key, arg |-> d.val] >>

\* variant: the response does not carry the height that was read
DiscReqCallsNoHeight(me, msg, h) ==
    IF FromSelf(me, msg) THEN << >>
    ELSE << [fn |-> "sendDiscoveryResponse", key |-> << >>, arg |-> 0] >>

\* the calls the discovery-request receive task makes for a message, the
\* block store reporting best height h
DiscReqCalls(me, msg, h) ==
    IF FromSelf(me, msg) THEN << >>
    ELSE << [fn |-> "sendDiscoveryResponse", key |-> << >>, arg |-> h] >>

\* variant: a message dropped for the role stays at the head of the
\* subscription and is looked at again in a later turn
TakenKeepsDropped(n, t, r, calls) ==
    /\ subq' = IF calls = << >> /\ r \in Roles \ {RoleLeader} THEN subq
               ELSE [subq EXCEPT ![n][t] = Tail(@)]
    /\ last' = [node |-> n, topic |-> t, from |-> Head(subq[n][t]).from,
                data |-> Head(subq[n][t]).data, role |-> r, calls |-> calls]

\* Next returned the head of the subscription: the turn made for it, r being
\* what CE.Role() answers during the turn ("" in the discovery-request loop,
\* whose turn is the same for every role)
Taken(n, t, r, calls) ==
    /\ subq' = [subq EXCEPT ![n][t] = Tail(@)]
    /\ last' = [node |-> n, topic |-> t, from |-> Head(subq[n][t]).from,
                data |-> Head(subq[n][t]).data, role |-> r, calls |-> calls]

\* variant: the delivery is made in the loop itself
AfterAsyncWaits(calls) == IF calls # << >> THEN "in_ce" ELSE "run"

\* where the ACK and discovery-response loops stand after a turn: the
\* delivery is made in a task of its own (go n.ce.Notify...), the loop goes on
AfterAsync(calls) == "run"

\* variant: the reset is delivered in a task of its own
AfterSyncGoesOn(calls) == "run"

\* where the consensus-reset loop stands after a turn: a delivery is made in
\* the loop itself, which waits for the CE to return
AfterSync(calls) == IF calls # << >> THEN "in_ce" ELSE "run"

\* one turn of the ACK receive loop
AckRecv(n) ==
    /\ subpc[n][TopicACKs] = "run"
    /\ subq[n][TopicACKs] # << >>
    /\ \E r \in Roles :
        LET calls == AckCalls(PeerIDOf(n), r, Head(subq[n][TopicACKs]))
        IN  /\ Taken(n, TopicACKs, r, calls)
            /\ ceOpen' = [ceOpen EXCEPT ![n] = @ \/ calls # << >>]
            /\ subpc' = [subpc EXCEPT ![n][TopicACKs] = AfterAsync(calls)]
    /\ UNCHANGED << focus, ctxDone, chanq, pubpc, dpend, nsent, svars, cvars, tvars >>

\* one turn of the discovery-response receive loop
DiscRespRecv(n) ==
    /\ subpc[n][TopicDiscResp] = "run"
    /\ subq[n][TopicDiscResp] # << >>
    /\ \E r \in Roles :
        LET calls == DiscRespCalls(PeerIDOf(n), r, Head(subq[n][TopicDiscResp]))
        IN  /\ Taken(n, TopicDiscResp, r, calls)
            /\ ceOpen' = [ceOpen EXCEPT ![n] = @ \/ calls # << >>]
            /\ subpc' = [subpc EXCEPT ![n][TopicDiscResp] = AfterAsync(calls)]
    /\ UNCHANGED << focus, ctxDone, chanq, pubpc, dpend, nsent, svars, cvars, tvars >>

\* one turn of the discovery-request receive loop, up to the send of the
\* response on discResp
DiscReqRecv(n) ==
    /\ subpc[n][TopicDiscReq] = "run"
    /\ subq[n][TopicDiscReq] # << >>
    /\ LET calls == DiscReqCalls(PeerIDOf(n), Head(subq[n][TopicDiscReq]), Best(n))
       IN  /\ Taken(n, TopicDiscReq, "", calls)
           /\ IF calls # << >> THEN
                  /\ dpend' = [dpend EXCEPT ![n] = calls[1].arg]
                  /\ subpc' = [subpc EXCEPT ![n][TopicDiscReq] = "sending"]
              ELSE UNCHANGED << dpend, subpc >>
    /\ UNCHANGED << focus, ctxDone, chanq, pubpc, ceOpen, nsent, svars, cvars, tvars >>

\* sendDiscoveryResponse: n.discResp <- response.  The capacity of discResp
\* is set where the Node is built: on a buffered channel the send returns
\* when the channel holds the value and the loop goes on; on an unbuffered
\* one it returns when the publish task has received the value ("handing")
DiscReqSend(n) ==
    /\ subpc[n][TopicDiscReq] = "sending"
    /\ ChanSend(n, TopicDiscResp, [BestHeight |-> dpend[n]])
    /\ \E after \in {"run", "handing"} :
           subpc' = [subpc EXCEPT ![n][TopicDiscReq] = after]
    /\ dpend' = [dpend EXCEPT ![n] = 0]
    /\ nsent' = nsent + 1
    /\ UNCHANGED << focus, ctxDone, pubpc, subq, last, ceOpen, svars, cvars, tvars >>

\* the send on an unbuffered discResp returns: the publish task has received
\* the response
DiscReqSent(n) ==
    /\ subpc[n][TopicDiscReq] = "handing"
    /\ chanq[n][TopicDiscResp] = << >>
    /\ subpc' = [subpc EXCEPT ![n][TopicDiscReq] = "run"]
    /\ UNCHANGED << focus, ctxDone, chanq, pubpc, subq, last, ceOpen, dpend, nsent,
                    svars, cvars, tvars >>

\* one turn of the consensus-reset receive loop, up to the return of
\* CE.NotifyResetState
ResetRecv(n) ==
    /\ subpc[n][TopicReset] = "run"
    /\ subq[n][TopicReset] # << >>
    /\ \E r \in Roles :
        \* r is the role of the node during the turn; the loop does not read it
        LET calls == ResetCalls(PeerIDOf(n), Head(subq[n][TopicReset]))
        IN  /\ Taken(n, TopicReset, r, calls)
            /\ subpc' = [subpc EXCEPT ![n][TopicReset] = AfterSync(calls)]
    /\ UNCHANGED << focus, ctxDone, chanq, pubpc, ceOpen, dpend, nsent, svars, cvars, tvars >>

\* CE.NotifyResetState returns
ResetReturn(n) ==
    /\ subpc[n][TopicReset] = "in_ce"
    /\ subpc' = [subpc EXCEPT ![n][TopicReset] = "run"]
    /\ UNCHANGED << focus, ctxDone, chanq, pubpc, subq, last, ceOpen, dpend, nsent,
                    svars, cvars, tvars >>

\* Next returns an error once the context is cancelled: the task returns and
\* its deferred calls run, last deferred first: sub.Cancel()
SubCtxDone(n, t) ==
    /\ subpc[n][t] = "run"
    /\ ctxDone[n]
    /\ InPlay(t)
    /\ subpc' = [subpc EXCEPT ![n][t] = "cancelled"]
    /\ subq' = [subq EXCEPT ![n][t] = << >>]
    /\ UNCHANGED << focus, ctxDone, chanq, pubpc, last, ceOpen, dpend, nsent, svars, cvars, tvars >>

\* the deferred exit of the receive task, second call: close(subCanceled)
SubClose(n, t) ==
    /\ subpc[n][t] = "cancelled"
    /\ subpc' = [subpc EXCEPT ![n][t] = "done"]
    /\ UNCHANGED << focus, ctxDone, chanq, pubpc, subq, last, ceOpen, dpend, nsent,
                    svars, cvars, tvars >>

\* ------------------------------------------------------------------------
\* Environment of the gossip loops
\* ------------------------------------------------------------------------

\* the asynchronous calls into the CE of a node have returned
CeReturn(n) ==
    /\ ceOpen[n]
    /\ ceOpen' = [ceOpen EXCEPT ![n] = FALSE]
    /\ UNCHANGED << focus, ctxDone, chanq, pubpc, subq, subpc, last, dpend, nsent,
                    svars, cvars, tvars >>

\* the root context of a node is cancelled
Cancel(n) ==
    /\ ~ctxDone[n]
    /\ nsent < MaxMsgs
    \* a behaviour that takes down every topic cancels one node
    /\ nsent' = IF focus = "teardown" THEN MaxMsgs ELSE nsent + 1
    /\ ctxDone' = [ctxDone EXCEPT ![n] = TRUE]
    /\ UNCHANGED << focus, chanq, pubpc, subq, subpc, last, ceOpen, dpend, svars, cvars, tvars >>

\* a remote peer publishes on a topic
EnvPublish(p, t) ==
    /\ t = focus
    /\ nsent < MaxMsgs
    /\ nsent' = nsent + 1
    /\ \E data \in EnvPayloads(t, p) :
        subq' = Deliver(subq, t, [from |-> PeerIDOf(p), data |-> data])
    /\ UNCHANGED << focus, ctxDone, chanq, pubpc, subpc, last, ceOpen, dpend, svars, cvars, tvars >>

GossipNext ==
    \/ \E n \in Nodes :
        \/ sendACK(n)
        \/ sendDiscoveryRequest(n)
        \/ sendReset(n)
        \/ AckRecv(n)
        \/ DiscRespRecv(n)
        \/ DiscReqRecv(n)
        \/ DiscReqSend(n)
        \/ DiscReqSent(n)
        \/ ResetRecv(n)
        \/ ResetReturn(n)
        \/ CeReturn(n)
    \/ \E n \in Nodes, t \in Topics : PubTake(n, t, TRUE)
    \/ \E p \in ExtPeers, t \in Topics : EnvPublish(p, t)

\* failure of a publish, cancellation of the root context and the exit of
\* the tasks
ShutdownNext ==
    \/ \E n \in Nodes : Cancel(n)
    \/ \E n \in Nodes, t \in Topics :
        \/ PubTake(n, t, FALSE)
        \/ PubCtxDone(n, t)
        \/ PubClose(n, t)
        \/ PubExit(n, t)
        \/ SubCtxDone(n, t)
        \/ SubClose(n, t)

\* cancellation of the root context and the exit of the tasks of every topic
TeardownNext ==
    \/ \E n \in Nodes : Cancel(n)
    \/ \E n \in Nodes, t \in Topics :
        \/ PubCtxDone(n, t)
        \/ PubClose(n, t)
        \/ PubExit(n, t)
        \/ SubCtxDone(n, t)
        \/ SubClose(n, t)

\* ------------------------------------------------------------------------
\* Specifications
\* ------------------------------------------------------------------------
Next == StreamNext \/ GossipNext \/ CodecNext \/ MerkleNext \/ BlockNext \/ VoteNext \/ ChainNext \/ ParamsNext \/ ReannounceNext \/ AnnounceNext

\* streams and gossip loops while the root context is live and the transport
\* works
Spec == Init /\ [][Next]_vars

InitStream == Init /\ focus = "stream"

\* the block-proposal streams
SpecStream == InitStream /\ [][StreamNext]_vars

InitReannounce == Init /\ focus = "reannounce"

\* the streams of one receiver on which the same proposal is announced
SpecReannounce == InitReannounce /\ [][ReannounceNext]_vars

InitAnnounce == Init /\ focus = "announce"

\* announceBlkProp called with a block and a peer list
SpecAnnounce == InitAnnounce /\ [][AnnounceNext]_vars

\* the block-proposal streams with the handlers scheduled: a handler that can
\* take a step takes it, and a waiting announcer is answered or times out.
\* Opening a stream, stalling and resetting are up to the peers.
SpecStreamFair ==
    /\ InitStream
    /\ [][StreamNext]_vars
    /\ \A s \in Streams :
        /\ WF_vars(RecvProp(s))
        /\ WF_vars(RecvBlock(s))
        /\ WF_vars(AnnReply(s) \/ AnnTimeout(s))

InitCodec == Init /\ focus = "codec"

\* the blockProp codec applied to the inputs PropInputs
SpecCodec == InitCodec /\ [][CodecNext]_vars

InitMerkle == Init /\ focus = "merkle"

\* CalcMerkleRoot applied to the slices LeafLists
SpecMerkle == InitMerkle /\ [][MerkleNext]_vars

InitBlock == Init /\ focus = "block"

\* DecodeBlock and GetRawBlockTx applied to the encodings of BlockInputs
SpecBlock == InitBlock /\ [][BlockNext]_vars

InitVote == Init /\ focus = "vote"

\* SignVote, VoteInfo.Verify and the wire forms of signatures, votes and
\* commits, applied to SignInputs
SpecVote == InitVote /\ [][VoteNext]_vars

InitChain == Init /\ focus = "chain"

\* SetChainState calls, each in its own transaction, and GetChainState
SpecChain == InitChain /\ [][ChainNext]_vars

InitParams == Init /\ focus = "params"

\* StoreParams, StoreDiff and LoadParams called one after the other
SpecParams == InitParams /\ [][ParamsNext]_vars

InitGossip == Init /\ focus \in Topics

\* the gossip loops while the root context is live and the transport works
SpecGossip == InitGossip /\ [][GossipNext]_vars

\* the gossip loops with failing publishes and cancellation of the root context
SpecShutdown == InitGossip /\ [][GossipNext \/ ShutdownNext]_vars

\* the steps of the publish task of node n on topic t
PubTaskStep(n, t) ==
    \/ PubTake(n, t, TRUE)
    \/ PubTake(n, t, FALSE)
    \/ PubCtxDone(n, t)
    \/ PubClose(n, t)
    \/ PubExit(n, t)

\* the steps of the receive task of node n on topic t, the return of the
\* CE from a synchronous call included
SubTaskStep(n, t) ==
    \/ t = TopicACKs /\ AckRecv(n)
    \/ t = TopicDiscResp /\ DiscRespRecv(n)
    \/ t = TopicDiscReq /\ (DiscReqRecv(n) \/ DiscReqSend(n) \/ DiscReqSent(n))
    \/ t = TopicReset /\ (ResetRecv(n) \/ ResetReturn(n))
    \/ SubCtxDone(n, t)
    \/ SubClose(n, t)

\* the gossip loops with failing publishes and cancellation, every task
\* being scheduled again and again as long as it can take a step
SpecShutdownFair ==
    /\ InitGossip
    /\ [][GossipNext \/ ShutdownNext]_vars
    /\ \A n \in Nodes, t \in Topics :
        /\ WF_vars(PubTaskStep(n, t))
        /\ WF_vars(SubTaskStep(n, t))

InitTeardown == Init /\ focus = "teardown"

\* the teardown of the gossip tasks of all topics of a node
SpecTeardown == InitTeardown /\ [][TeardownNext]_vars

\* ------------------------------------------------------------------------
\* Properties of the block-proposal streams
\* ------------------------------------------------------------------------

\* a is an initial part of b
IsPrefix(a, b) == Len(a) <= Len(b) /\ a = SubSeq(b, 1, Len(a))

InSeq(x, q) == \E i \in 1..Len(q) : q[i] = x

\* what ReadFrom makes of the announcement that was written on stream s
SentProp(s) == BlockPropReadFrom(Announcements[annIdx[s]].propID)

\* C1: the block handler calls CE.NotifyBlockProposal only for a stream whose
\* announcement decoded, whose proposal the CE accepted and whose pulled
\* bytes decode to a block of the announced height whose header hash is the
\* announced hash; the block it hands over is that block.  A pulled block of
\* another height or hash is never handed to the CE.
C1_NotifyOnlyMatchingBlock ==
    \A s \in Streams :
        ceBlk[s] # << >> =>
            /\ annIdx[s] # 0
            /\ SentProp(s).err = "none"
            /\ rprop[s] = [err |-> "none", prop |-> SentProp(s).prop]
            /\ ceAccept[s] = << TRUE >>
            /\ rraw[s] = Announcements[annIdx[s]].rawBlk
            /\ DecodeBlock(rraw[s]).err = "none"
            /\ ceBlk[s] = << DecodeBlock(rraw[s]).blk >>
            /\ ceBlk[s][1].Header.Height = SentProp(s).prop.Height
            /\ HeaderHash(ceBlk[s][1].Header) = SentProp(s).prop.Hash

\* a block was handed to the CE and the handler returned
C1_Witness == \E s \in Streams : ceBlk[s] # << >> /\ rpc[s] = "closed"

\* C2: when CE.AcceptProposal answers false the handler writes no getMsg,
\* reads no content, calls no NotifyBlockProposal and closes the stream; a
\* getMsg on a stream means the CE accepted its proposal.
C2_RejectedNotPulled ==
    \A s \in Streams :
        /\ ceAccept[s] = << FALSE >> =>
            /\ ~InSeq("getMsg", wlog[s])
            /\ r2a[s] = << >>
            /\ rraw[s] = << >>
            /\ ceBlk[s] = << >>
            /\ rpc[s] = "closed"
        /\ (InSeq("getMsg", wlog[s]) \/ rpc[s] = "await_block") => ceAccept[s] = << TRUE >>

\* the CE rejected a proposal and both sides closed the stream
C2_Witness ==
    \E s \in Streams : ceAccept[s] = << FALSE >> /\ rpc[s] = "closed" /\ apc[s] = "closed"

\* C4: on a stream the announcement is written first, getMsg only after the
\* receiver read and the CE accepted that announcement, and the block bytes
\* only after the announcer read getMsg; the receiver writes nothing but
\* getMsg.
C4_StreamOrder ==
    \A s \in Streams :
        /\ IsPrefix(wlog[s], << "prop", "getMsg", "block" >>)
        /\ InSeq("getMsg", wlog[s]) => rprop[s].err = "none" /\ ceAccept[s] = << TRUE >>
        /\ r2a[s] \in {<< >>, getMsg}

\* all three writes were made on a stream
C4_Witness == \E s \in Streams : wlog[s] = << "prop", "getMsg", "block" >>

\* C5: every block-proposal stream handler eventually closes its stream: a
\* receiver that waits for the content closes even when the announcer sends
\* nothing more and never closes, and an announcer that waits for the reply
\* closes even when the receiver never replies.
C5_HandlersClose ==
    \A s \in Streams :
        /\ (rpc[s] = "await_block") ~> (rpc[s] = "closed")
        /\ (apc[s] = "await_get") ~> (apc[s] \in {"closed", "hung", "reset"})

\* the CE accepted, the receiver asked for the content, and the announcer
\* stopped without sending it or closing
C5_Witness ==
    \E s \in Streams :
        /\ rpc[s] = "await_block"
        /\ apc[s] = "hung"
        /\ ceAccept[s] = << TRUE >>
        /\ ~aclosed[s]

\* ------------------------------------------------------------------------
\* Properties of the gossip loops
\* ------------------------------------------------------------------------

\* a receive loop has taken a message
TurnOn(t) == last.node \in Nodes /\ last.topic = t

\* the error of decoding the payload of the last turn as its topic's message
LastDecodeErr ==
    CASE last.topic = TopicACKs -> AckResUnmarshalBinary(last.data).err
      [] last.topic = TopicDiscResp -> DiscResUnmarshalBinary(last.data).err
      [] last.topic = TopicReset -> ConsensusResetUnmarshalBinary(last.data).err
      [] OTHER -> "none"

\* the receive loop that made the last turn is at its Next call again
LoopGoesOn == subpc[last.node][last.topic] = "run"

\* C3: a message that does not decode never reaches the CE: for an
\* announcement that does not decode the CE is asked nothing and handed no
\* block, for pulled bytes that do not decode it is handed no block, and for
\* an ACK, discovery-response or reset payload that does not decode no
\* Notify call is made and the receive loop goes on to the next message.
C3_UndecodableDropped ==
    /\ \A s \in Streams :
        /\ (annIdx[s] # 0 /\ SentProp(s).err # "none") =>
               ceAccept[s] = << >> /\ ceBlk[s] = << >>
        /\ DecodeBlock(rraw[s]).err # "none" => ceBlk[s] = << >>
    /\ (last.node \in Nodes /\ LastDecodeErr # "none") =>
           last.calls = << >> /\ LoopGoesOn

\* a leader took an ACK of another peer, with a derivable key, that does not
\* decode
C3_Witness ==
    /\ TurnOn(TopicACKs)
    /\ last.role = RoleLeader
    /\ last.from # PeerIDOf(last.node)
    /\ PubKeyFromPeerID(last.from).err = "none"
    /\ AckResUnmarshalBinary(last.data).err # "none"

\* C6: a node whose role is not leader when it takes an ACK makes no
\* NotifyACK call for it.
C6_NonLeaderIgnoresACK ==
    (TurnOn(TopicACKs) /\ last.role # RoleLeader) => last.calls = << >>

\* a node that is not the leader took a well-formed ACK of another peer
C6_Witness ==
    /\ TurnOn(TopicACKs)
    /\ last.role # RoleLeader
    /\ last.from # PeerIDOf(last.node)
    /\ PubKeyFromPeerID(last.from).err = "none"
    /\ AckResUnmarshalBinary(last.data).err = "none"

\* C7: when A is the leader and takes an ACK that B published through
\* sendACK, A makes exactly one call, NotifyACK, with the key derived from
\* B's peer id and the AckRes B sent; B makes no call for its own ACK.
C7_AckReachesLeaderOnce ==
    (TurnOn(TopicACKs) /\ last.from = PeerIDOf("B")) =>
        /\ (last.node = "A" /\ last.role = RoleLeader) =>
               /\ Len(last.calls) = 1
               /\ last.calls[1].fn = "NotifyACK"
               /\ last.calls[1].key = PubKeyOf("B")
               /\ last.calls[1].arg \in
                      { SendACKRes("B", TRUE, 1, HashOf(1), HashOf(6), << 1 >>),
                        SendACKRes("B", FALSE, 1, HashOf(1), << >>, << 1 >>) }
        /\ last.node = "B" => last.calls = << >>

\* A, the leader, took B's ACK
C7_Witness ==
    /\ TurnOn(TopicACKs)
    /\ last.node = "A"
    /\ last.role = RoleLeader
    /\ last.from = PeerIDOf("B")
    /\ last.calls # << >>

\* C8: for a message whose source is the node itself, on any of the four
\* topics and whatever the role, the node makes no CE call and enqueues no
\* discovery response.
C8_OwnMessagesIgnored ==
    (last.node \in Nodes /\ last.from = PeerIDOf(last.node)) =>
        /\ last.calls = << >>
        /\ LoopGoesOn
        /\ last.topic = TopicDiscReq => dpend[last.node] = 0

\* a leader took its own well-formed ACK
C8_Witness ==
    /\ TurnOn(TopicACKs)
    /\ last.from = PeerIDOf(last.node)
    /\ last.role = RoleLeader
    /\ AckResUnmarshalBinary(last.data).err = "none"

\* C9: an ACK, discovery response or reset from a peer whose public key
\* cannot be derived from its peer id is dropped without a CE call, and the
\* receive loop goes on.
C9_UnderivableKeyDropped ==
    (last.node \in Nodes
        /\ last.topic \in {TopicACKs, TopicDiscResp, TopicReset}
        /\ PubKeyFromPeerID(last.from).err # "none") =>
            last.calls = << >> /\ LoopGoesOn

\* a well-formed reset of a peer with no derivable key was taken
C9_Witness ==
    /\ TurnOn(TopicReset)
    /\ PubKeyFromPeerID(last.from).err # "none"
    /\ ConsensusResetUnmarshalBinary(last.data).err = "none"

\* C10: the ACK and discovery-response receive loops are at their Next call
\* whether or not calls into the CE are open: a CE call that does not return
\* keeps neither loop from taking the next message.
C10_AsyncLoopsResponsive ==
    \A n \in Nodes :
        /\ subpc[n][TopicACKs] = "run"
        /\ subpc[n][TopicDiscResp] = "run"
        /\ subq[n][TopicACKs] # << >> => ENABLED AckRecv(n)
        /\ subq[n][TopicDiscResp] # << >> => ENABLED DiscRespRecv(n)

\* with a call into the CE of the node still open, its ACK loop took a later
\* message, one it makes no call for
C10_Witness ==
    /\ TurnOn(TopicACKs)
    /\ ceOpen[last.node]
    /\ last.calls = << >>

\* ------------------------------------------------------------------------
\* Properties of the publish tasks
\* ------------------------------------------------------------------------

\* the payload data carries the value v of the channel of topic t
PayloadCarries(t, data, v) ==
    CASE t = TopicACKs ->
            AckResUnmarshalBinary(data) = [err |-> "none", val |-> v]
      [] t = TopicDiscResp ->
            DiscResUnmarshalBinary(data) = [err |-> "none", val |-> v]
      [] t = TopicReset ->
            ConsensusResetUnmarshalBinary(data) = [err |-> "none", val |-> v]
      [] OTHER -> data = << >>

\* in this step the subscriptions of topic t got a message of node n
PublishedBy(n, t) ==
    \E m \in Nodes :
        /\ Len(subq'[m][t]) > Len(subq[m][t])
        /\ subq'[m][t][Len(subq'[m][t])].from = PeerIDOf(n)

\* in this step the publish task of node n took the head of its channel
TookFromChan(n, t) == Len(chanq'[n][t]) < Len(chanq[n][t])

PublishFailed(n, t) ==
    /\ TookFromChan(n, t)
    /\ \E m \in Nodes : SubLive(m, t)
    /\ ~PublishedBy(n, t)

\* C12: when Publish fails the publish task of the topic leaves its loop:
\* the value is gone from the channel and is published by no later step, the
\* task takes and publishes nothing any more, and the receive task of the
\* topic goes on: it ends only when the context is cancelled.
C12_PublishErrorEndsTask ==
    [][\A n \in Nodes, t \in Topics :
          /\ PublishFailed(n, t) =>
                /\ pubpc'[n][t] # "run"
                /\ chanq'[n][t] = Tail(chanq[n][t])
                /\ subpc'[n][t] = subpc[n][t]
                /\ subq'[n][t] = subq[n][t]
          /\ pubpc[n][t] # "run" =>
                /\ pubpc'[n][t] # "run"
                /\ ~TookFromChan(n, t)
                /\ ~PublishedBy(n, t)
          /\ subpc'[n][t] = "done" => ctxDone'[n]
      ]_vars

\* a publish of the ACK task failed: the task has left its loop, the value is
\* gone, the context is live and the receive task is at Next
C12_Witness ==
    \E n \in Nodes :
        /\ pubpc[n][TopicACKs] = "exiting"
        /\ ~ctxDone[n]
        /\ chanq[n][TopicACKs] = << >>
        /\ subpc[n][TopicACKs] = "run"

\* C13: when the context is cancelled while a value a producer sent waits on
\* a topic channel, the publish task takes that value before it leaves its
\* loop, so that the producer's send completes; a receive task that ends
\* cancels its subscription.
C13_DrainsBeforeExit ==
    [][\A n \in Nodes, t \in Topics :
          /\ (ctxDone[n] /\ pubpc[n][t] = "run" /\ pubpc'[n][t] # "run"
                /\ ~TookFromChan(n, t)) => chanq[n][t] = << >>
          /\ (subpc[n][t] # "done" /\ subpc'[n][t] = "done") => subq'[n][t] = << >>
      ]_vars

\* the context of a node is cancelled, its ACK publish task has left its loop
\* and a value is still on ackChan
C13_Witness ==
    \E n \in Nodes :
        /\ ctxDone[n]
        /\ pubpc[n][TopicACKs] # "run"
        /\ chanq[n][TopicACKs] # << >>

\* ------------------------------------------------------------------------
\* Properties of discovery, reset and delivery
\* ------------------------------------------------------------------------

\* in this step the receive loop of node n on topic t took a message
TookFromSub(n, t) == Len(subq'[n][t]) < Len(subq[n][t])

\* in this step a value was put on the channel of topic t of node n
PutOnChan(n, t) == Len(chanq'[n][t]) > Len(chanq[n][t])

\* C14: for every discovery request of another peer a node reads bki.Best()
\* and enqueues exactly one DiscoveryResponse with the height it read: the
\* turn leaves that one response pending, the loop takes no further request
\* before it is on discResp, and nothing else is put on discResp.  Every
\* value taken from discReq is one publish of the empty payload.
C14_DiscoveryRequestAnswered ==
    [][\A n \in Nodes :
          /\ (TookFromSub(n, TopicDiscReq)
                /\ Head(subq[n][TopicDiscReq]).from # PeerIDOf(n)) =>
                /\ subpc'[n][TopicDiscReq] = "sending"
                /\ dpend'[n] = Best(n)
                /\ ~PutOnChan(n, TopicDiscResp)
          /\ subpc[n][TopicDiscReq] = "sending" =>
                /\ ~TookFromSub(n, TopicDiscReq)
                /\ \/ subpc'[n][TopicDiscReq] = "sending" /\ dpend'[n] = dpend[n]
                   \/ /\ subpc'[n][TopicDiscReq] \in {"run", "handing"}
                      /\ chanq'[n][TopicDiscResp] =
                            Append(chanq[n][TopicDiscResp], [BestHeight |-> Best(n)])
          /\ subpc[n][TopicDiscReq] = "handing" =>
                /\ ~TookFromSub(n, TopicDiscReq)
                /\ ~PutOnChan(n, TopicDiscResp)
          /\ PutOnChan(n, TopicDiscResp) => subpc[n][TopicDiscReq] = "sending"
          /\ TookFromChan(n, TopicDiscReq) =>
                \A m \in Nodes :
                    subq'[m][TopicDiscReq] =
                        Append(subq[m][TopicDiscReq],
                               [from |-> PeerIDOf(n), data |-> << >>])
      ]_vars

\* a node took the request of another peer and its response is on discResp
C14_Witness ==
    /\ TurnOn(TopicDiscReq)
    /\ last.from # PeerIDOf(last.node)
    /\ subpc[last.node][TopicDiscReq] = "run"
    /\ chanq[last.node][TopicDiscResp] = << [BestHeight |-> Best(last.node)] >>

\* the node or peer whose peer id is pid
SenderOf(pid) == CHOOSE p \in Nodes \cup ExtPeers : PeerIDOf(p) = pid

\* C15: for a discovery response it takes, a node calls
\* CE.NotifyDiscoveryMessage exactly when its role at that time is leader,
\* the message is not its own, the payload decodes and the key of the sender
\* is derivable from its peer id; the call is made once, with the sender's
\* public key and the BestHeight of the payload.
C15_DiscoveryResponseDelivered ==
    TurnOn(TopicDiscResp) =>
        LET d == DiscResUnmarshalBinary(last.data)
            k == PubKeyFromPeerID(last.from)
            wanted == /\ last.role = RoleLeader
                      /\ last.from # PeerIDOf(last.node)
                      /\ d.err = "none"
                      /\ k.err = "none"
        IN  /\ last.calls # << >> <=> wanted
            /\ wanted =>
                /\ last.calls = << [fn |-> "NotifyDiscoveryMessage",
                                    key |-> PubKeyOf(SenderOf(last.from)),
                                    arg |-> d.val.BestHeight] >>
                /\ SenderOf(last.from) \in Nodes =>
                       last.calls[1].arg = Best(SenderOf(last.from))

\* A, the leader, took the response B made to a request and called the CE
C15_Witness ==
    /\ TurnOn(TopicDiscResp)
    /\ last.node = "A"
    /\ last.from = PeerIDOf("B")
    /\ last.calls # << >>

\* C16: every consensus reset that decodes, is not the node's own and comes
\* from a peer whose key is derivable is handed to CE.NotifyResetState, once,
\* with its ToHeight and TxIDs and the sender's public key, whatever the role
\* of the node and whoever the sender is; no other reset is handed on.
C16_ResetHandedToCE ==
    TurnOn(TopicReset) =>
        LET d == ConsensusResetUnmarshalBinary(last.data)
            k == PubKeyFromPeerID(last.from)
            wanted == /\ last.from # PeerIDOf(last.node)
                      /\ d.err = "none"
                      /\ k.err = "none"
        IN  /\ last.role \in Roles
            /\ last.calls # << >> <=> wanted
            /\ wanted =>
                /\ last.calls = << [fn |-> "NotifyResetState",
                                    key |-> PubKeyOf(SenderOf(last.from)),
                                    arg |-> d.val] >>
                /\ SenderOf(last.from) \in Nodes =>
                       last.calls[1].arg = [ToHeight |-> 2, TxIDs |-> << HashOf(1) >>]

\* a node that is not the leader took the reset B sent and called the CE
C16_Witness ==
    /\ TurnOn(TopicReset)
    /\ last.role = "sentry"
    /\ last.from = PeerIDOf("B")
    /\ last.calls # << >>

\* C17: the core neither stores nor replays messages.  Every turn of the ACK
\* and discovery-response loops is made for the head of the subscription,
\* which the turn removes whether or not it hands it to the CE; the role is
\* the one read in that turn, and a turn made while not leader calls nothing.
\* A call into the CE is made only in the turn that takes its message, and a
\* subscription gains messages only at its end, by a publish.
C17_NoReplay ==
    [][/\ last' # last =>
            /\ last'.node \in Nodes
            /\ subq[last'.node][last'.topic] # << >>
            /\ Head(subq[last'.node][last'.topic]) =
                   [from |-> last'.from, data |-> last'.data]
            /\ subq'[last'.node][last'.topic] = Tail(subq[last'.node][last'.topic])
            /\ (last'.topic \in {TopicACKs, TopicDiscResp} /\ last'.role # RoleLeader)
                   => last'.calls = << >> /\ ceOpen' = ceOpen
       /\ \A n \in Nodes :
            /\ (ceOpen'[n] /\ ~ceOpen[n]) =>
                   /\ last'.node = n
                   /\ last'.role = RoleLeader
                   /\ last'.calls # << >>
                   /\ TookFromSub(n, last'.topic)
            /\ \A t \in {TopicACKs, TopicDiscResp} :
                   Len(subq'[n][t]) > Len(subq[n][t]) =>
                       /\ nsent' > nsent \/ \E m \in Nodes : TookFromChan(m, t)
                       /\ SubSeq(subq'[n][t], 1, Len(subq[n][t])) = subq[n][t]
      ]_vars

\* a node that was not the leader dropped a well-formed ACK of another peer;
\* the message is in none of its queues, nothing more will be published and
\* no call into its CE is open
C17_Witness ==
    /\ TurnOn(TopicACKs)
    /\ last.role = "validator"
    /\ last.from \notin {PeerIDOf(last.node), PeerIDOf("Y")}
    /\ AckResUnmarshalBinary(last.data).err = "none"
    /\ subq[last.node][TopicACKs] = << >>
    /\ \A n \in Nodes : chanq[n][TopicACKs] = << >>
    /\ nsent = MaxMsgs
    /\ ~ceOpen[last.node]

\* ------------------------------------------------------------------------
\* Properties of the blockProp codec
\* ------------------------------------------------------------------------

\* the eight bytes b are the little-endian two's complement form of n,
\* MinI <= n <= MaxI
LittleEndian8(b, n) ==
    /\ Len(b) = 8
    /\ \A i \in 1..4 : b[i] = (n \div 256 ^ (i - 1)) % 256
    /\ \A i \in 5..8 : b[i] = IF n < 0 THEN 255 ELSE 0

\* the encoding reached the decoder as MarshalBinary wrote it
Undamaged == cpc # "new" /\ cdam = "none"

\* C18: for every blockProp x with len(LeaderSig) <= 1000,
\* UnmarshalBinary(MarshalBinary(x)) succeeds and yields the Height, Hash,
\* PrevHash, Stamp and LeaderSig of x, and encoding the decoded value again
\* yields the same bytes.
C18_RoundTrip ==
    (/\ Undamaged
     /\ cpc \in {"decoded", "reencoded"}
     /\ Len(cprop.LeaderSig) <= 1000)
        => /\ cres.err = "none"
           /\ cres.prop.Height = cprop.Height
           /\ cres.prop.Hash = cprop.Hash
           /\ cres.prop.PrevHash = cprop.PrevHash
           /\ cres.prop.Stamp = cprop.Stamp
           /\ cres.prop.LeaderSig = cprop.LeaderSig
           /\ cpc = "reencoded" => cre = cbytes

\* a blockProp with a signature of 1000 bytes went through encoding,
\* decoding and encoding again
C18_Witness ==
    /\ Undamaged
    /\ cpc = "reencoded"
    /\ Len(cprop.LeaderSig) = 1000
    /\ cres.prop = cprop

\* the input holds all fixed fields and its sigLen field is v
SigLenFieldIs(v) ==
    /\ Len(cbytes) >= 88
    /\ LittleEndian8(SubSeq(cbytes, 81, 88), v)

\* the sigLen values an input of the model can hold
SigLensSeen == SigLenValues \cup {Len(cprop.LeaderSig)}

\* the input has fewer bytes than the fixed fields plus sigLen
Truncated ==
    \/ Len(cbytes) < 88
    \/ \E v \in SigLensSeen : SigLenFieldIs(v) /\ v >= 0 /\ Len(cbytes) - 88 < v

\* C19: decoding an input whose sigLen field is greater than 1000 fails with
\* 'invalid signature length' when the 88 bytes of the fixed fields have been
\* read and no byte of the signature, and decoding a truncated input fails
\* with an error.
C19_BadInputRejected ==
    cpc = "decoded" =>
        /\ (\E v \in SigLensSeen : SigLenFieldIs(v) /\ v > 1000) =>
               /\ cres.err = "invalid signature length"
               /\ cres.n = 88
               /\ cres.prop.LeaderSig = << >>
        /\ Truncated => cres.err \notin {"none", "unread"}

\* an input with a sigLen field over 1000 and signature bytes after it was
\* rejected
C19_Witness ==
    /\ cpc = "decoded"
    /\ cdam = "siglen"
    /\ SigLenFieldIs(1001)
    /\ Len(cbytes) > 88
    /\ cres.err = "invalid signature length"

\* C20: the encoding of a blockProp is exactly 88 + len(LeaderSig) bytes:
\* Height in 8 bytes little-endian, Hash in 32, PrevHash in 32, Stamp in 8
\* bytes little-endian, len(LeaderSig) in 8 bytes little-endian, then the
\* bytes of LeaderSig, and nothing else.
C20_Layout ==
    Undamaged =>
        /\ Len(cbytes) = 88 + Len(cprop.LeaderSig)
        /\ LittleEndian8(SubSeq(cbytes, 1, 8), cprop.Height)
        /\ SubSeq(cbytes, 9, 40) = cprop.Hash
        /\ SubSeq(cbytes, 41, 72) = cprop.PrevHash
        /\ LittleEndian8(SubSeq(cbytes, 73, 80), cprop.Stamp)
        /\ LittleEndian8(SubSeq(cbytes, 81, 88), Len(cprop.LeaderSig))
        /\ SubSeq(cbytes, 89, Len(cbytes)) = cprop.LeaderSig

\* a blockProp with a negative height, a negative stamp and a signature was
\* encoded
C20_Witness ==
    /\ Undamaged
    /\ cpc = "encoded"
    /\ cprop.Height < 0
    /\ cprop.Stamp < 0
    /\ Len(cprop.LeaderSig) = MaxSigBytes

\* ------------------------------------------------------------------------
\* Properties of CalcMerkleRoot
\* ------------------------------------------------------------------------

\* the digest of the 64-byte concatenation of two nodes
HashPair(a, b) == HashBytes(a \o b)

RECURSIVE NodesAt(_, _)
\* the number of nodes k levels above n leaves
NodesAt(n, k) == IF k = 0 THEN n ELSE (NodesAt(n, k - 1) + 1) \div 2

\* the level that holds a single node
RootLevel(n) == CHOOSE k \in 0..n : NodesAt(n, k) = 1 /\ \A j \in 0..(k - 1) : NodesAt(n, j) > 1

RECURSIVE TreeNode(_, _, _)
\* node i (from 0) of level k of the tree over the leaves l: its children are
\* the nodes 2i and 2i+1 of the level below, and the node 2i twice when that
\* level ends at 2i
TreeNode(l, k, i) ==
    IF k = 0 THEN l[i + 1]
    ELSE LET below == NodesAt(Len(l), k - 1)
             right == IF 2 * i + 1 < below THEN 2 * i + 1 ELSE 2 * i
         IN  HashPair(TreeNode(l, k - 1, 2 * i), TreeNode(l, k - 1, right))

\* a call of CalcMerkleRoot has returned
MerkleReturned == mpc \in {"called", "recalled"}

\* C21: CalcMerkleRoot equals the reference construction: the zero hash for
\* no leaves, the leaf itself for one leaf, the hash of the pair for two, and
\* in general the root of the tree in which each level pairs adjacent nodes
\* left to right and pairs the last node of an odd level with itself; for
\* five leaves H(H(H(l0|l1)|H(l2|l3)) | H(H(l4|l4)|H(l4|l4))).
C21_MerkleReference ==
    MerkleReturned =>
        LET l == msnap
            n == Len(msnap)
        IN  /\ n = 0 => mroot = [i \in 1..32 |-> 0]
            /\ n = 1 => mroot = l[1]
            /\ n = 2 => mroot = HashPair(l[1], l[2])
            /\ n = 5 => mroot =
                   HashPair(HashPair(HashPair(l[1], l[2]), HashPair(l[3], l[4])),
                            HashPair(HashPair(l[5], l[5]), HashPair(l[5], l[5])))
            /\ n >= 1 => mroot = TreeNode(l, RootLevel(n), 0)

\* the root of five leaves, the last two of them different, was computed
C21_Witness ==
    /\ mpc = "called"
    /\ Len(msnap) = 5
    /\ msnap[4] # msnap[5]
    /\ mroot # msnap[5]

C23_AnySwapChangesRoot ==
    mpc = "recalled" => mroot # mfirst.root

\* C23 as amended: swapping two leaves that differ changes the root.
C23_SwapOfDifferentLeaves ==
    (mpc = "recalled" /\ msnap # mfirst.leaves) => mroot # mfirst.root

\* the first two of four leaves, which differ, were exchanged and the root
\* computed again
C23_Witness ==
    /\ mpc = "recalled"
    /\ Len(msnap) = 4
    /\ msnap[1] = mfirst.leaves[2]
    /\ msnap[2] = mfirst.leaves[1]
    /\ msnap[1] # msnap[2]
    /\ mroot # mfirst.root

\* ------------------------------------------------------------------------
\* Properties of DecodeBlock and GetRawBlockTx
\* ------------------------------------------------------------------------

\* the four bytes of a length field hold a value of 2^31 or more
AtLeast2To31(val) == val[4] >= 128

\* the last position of transaction i (from 0) in EncodeBlock(blk)
TxEnd(blk, i) == TxLenPos(blk, i) + 3 + Len(blk.Txns[i + 1])

\* C24: for an encoded block with NumTxns = n, GetRawBlockTx(raw, i) returns
\* exactly the marshaled bytes of transaction i for 0 <= i < n and
\* ErrNotFound for i >= n, also for i = 0 on a block with no transactions.
C24_RawTxByIndex ==
    (bpc = "got" /\ bdam = NoDamage) =>
        IF bget.idx < bblk.Header.NumTxns
        THEN bget.err = "none" /\ bget.tx = bblk.Txns[bget.idx + 1]
        ELSE bget.err = "ErrNotFound" /\ bget.tx = << >>

\* transaction 1 of a block of three transactions, which differs from
\* transaction 0, was returned
C24_Witness ==
    /\ bpc = "got"
    /\ bdam = NoDamage
    /\ Len(bblk.Txns) = 3
    /\ bblk.Txns[1] # bblk.Txns[2]
    /\ bget.idx = 1
    /\ bget.tx = bblk.Txns[2]

\* what C25 says of DecodeBlock: a signature length of 2^31 or more fails
\* with 'invalid signature length', a transaction length of 2^31 or more with
\* 'invalid transaction length', and a truncated input with some error
DecodeRejects ==
    bpc = "decoded" =>
        /\ (bdam.kind = "siglen" /\ AtLeast2To31(bdam.val))
               => bdec.err = "invalid signature length"
        /\ (bdam.kind = "txlen" /\ AtLeast2To31(bdam.val))
               => bdec.err = "invalid transaction length"
        /\ bdam.kind # "none" => bdec.err \notin {"none", "unread"}

\* C25 as stated: DecodeBlock fails with 'invalid signature length' for a
\* signature length field >= 2^31 and with 'invalid transaction length' for a
\* transaction length field >= 2^31, and DecodeBlock and GetRawBlockTx both
\* fail with an error when a length field extends past the end of the buffer.
C25_LengthsRejected ==
    /\ DecodeRejects
    /\ (bpc = "got" /\ bdam.kind # "none") => bget.err \notin {"none", "unread"}

\* GetRawBlockTx(raw, idx) has to read the part of the input that is damaged:
\* the header or the signature, or a transaction up to idx
DamageBeforeTx(idx) ==
    \/ bdam.kind = "siglen"
    \/ bdam.kind = "txlen" /\ bdam.at <= idx
    \/ bdam.kind = "cut" /\ (idx >= Len(bblk.Txns) \/ bdam.at < TxEnd(bblk, idx))

\* C25 as amended: as stated for DecodeBlock; GetRawBlockTx(raw, i) fails
\* with an error when the length field of the signature or of a transaction
\* up to i extends past the end of the buffer.
C25_LengthsReadRejected ==
    /\ DecodeRejects
    /\ (bpc = "got" /\ DamageBeforeTx(bget.idx)) => bget.err \notin {"none", "unread"}

\* DecodeBlock was given a block whose second transaction has a length field
\* of 2^31 and failed with 'invalid transaction length'
C25_Witness ==
    /\ bpc = "decoded"
    /\ bdam = [kind |-> "txlen", at |-> 1, val |-> << 0, 0, 0, 128 >>]
    /\ bdec.err = "invalid transaction length"

\* ------------------------------------------------------------------------
\* Properties of SignVote and VoteInfo.Verify
\* ------------------------------------------------------------------------
\* SignVote was called with a key and has returned
SignVoteReturned == vsig.err # "unread" /\ vin.key # ""

\* C26: SignVote called for a positive vote (ack = true) without app hash
\* returns an error and no signature, so no vote is ever built around the
\* result of such a call; called for a negative vote it returns a signature
\* and no error, with or without app hash.
C26_AckNeedsAppHash ==
    /\ SignVoteReturned /\ vin.ack /\ vin.appHash = << >>
           => vsig.err # "none" /\ vsig.sig = NoSignature /\ vvote = NoVote
    /\ SignVoteReturned /\ ~vin.ack
           => vsig.err = "none" /\ vsig.sig # NoSignature

\* SignVote has refused a positive vote without app hash
C26_Witness ==
    SignVoteReturned /\ vin.ack /\ vin.appHash = << >> /\ vsig.err # "none"

\* the vote was built around the signature SignVote returned
BuiltFromSignVote == vvote # NoVote /\ vsig.err = "none"

\* the digest a verifier reconstructs for the status of the vote
DigestByStatus(v, appHash) ==
    CASE v.AckStatus = "Agree" -> VoteDigest(VoteBlkID, TRUE, appHash)
      [] v.AckStatus = "Disagree" -> VoteDigest(VoteBlkID, FALSE, << >>)
      [] v.AckStatus = "Diverge" -> VoteDigest(VoteBlkID, FALSE, v.AppHash)

\* C27: VoteInfo.Verify(blkID, appHash) returns no error exactly when the
\* Signature.Data of the vote is a signature, under the PubKey the vote
\* carries, of the digest for its AckStatus (a Diverge vote having its
\* AppHash). So a vote signed as an ACK verifies as Agree with the app hash
\* it was signed for and in no other way: not as Disagree or Diverge, not
\* after a byte of Signature.Data was changed, and not after PubKey was
\* replaced by another key.
C27_VerifyIffSigned ==
    vpc = "verified" =>
        /\ vver.err = "none" <=>
               /\ ~(vvote.AckStatus = "Diverge" /\ vvote.AppHash = << >>)
               /\ \E k \in Nodes :
                      /\ PubKeyOf(k) = vvote.Signature.PubKey
                      /\ vvote.Signature.Data = SignBytes(k, DigestByStatus(vvote, vver.arg))
        /\ BuiltFromSignVote /\ vin.ack =>
               (vver.err = "none" <=>
                    vtamper = "none" /\ vvote.AckStatus = "Agree" /\ vver.arg = vin.appHash)
        /\ ~BuiltFromSignVote => vver.err # "none"

\* a vote signed as an ACK has verified as Agree
C27_Witness ==
    vpc = "verified" /\ BuiltFromSignVote /\ vin.ack /\ vvote.AckStatus = "Agree"
        /\ vver.err = "none"

\* an untouched vote signed as an ACK was verified as Disagree
C27_AsDisagree ==
    vpc = "verified" /\ BuiltFromSignVote /\ vin.ack /\ vvote.AckStatus = "Disagree"
        /\ vtamper = "none" /\ vver.err = "invalid signature"

\* a vote signed as an ACK was verified as Agree after a change of its signature
C27_Tampered(what) ==
    vpc = "verified" /\ BuiltFromSignVote /\ vin.ack /\ vvote.AckStatus = "Agree"
        /\ vver.arg = vin.appHash /\ vtamper = what /\ vver.err = "invalid signature"

\* C28: a vote signed by SignVote as a NACK, with or without app hash,
\* verifies as Disagree: VoteInfo{AckStatus: Disagree}.Verify(blkID, appHash)
\* returns no error for it, whatever app hash Verify is given.
C28_NackVerifiesAsDisagree ==
    vpc = "verified" /\ BuiltFromSignVote /\ ~vin.ack /\ vtamper = "none"
            /\ vvote.AckStatus = "Disagree"
        => vver.err = "none"

\* a NACK that was signed with an app hash has verified as Disagree
C28_Witness ==
    vpc = "verified" /\ BuiltFromSignVote /\ ~vin.ack /\ vin.appHash # << >>
        /\ vtamper = "none" /\ vvote.AckStatus = "Disagree" /\ vver.err = "none"

\* the vote says Diverge and has no AppHash
DivergeWithoutAppHash == vvote.AckStatus = "Diverge" /\ vvote.AppHash = << >>

\* C29: a VoteInfo with AckStatus Diverge and no AppHash is rejected
\* everywhere: MarshalBinary returns an error and no bytes for it, alone or as
\* a vote of a CommitInfo, and Verify returns the error about the missing app
\* hash, not the result of a signature check, whatever signature the vote
\* carries: one SignVote made, a changed one, or a foreign one.
C29_DivergeNeedsAppHash ==
    DivergeWithoutAppHash =>
        /\ vpc = "encoded" /\ venc.kind \in {"vote", "commit1", "commit2"}
               => venc.err # "none" /\ venc.data = << >>
        /\ vpc = "verified" => vver.err = "missing app hash"

\* Verify has refused a Diverge vote without AppHash that carries the
\* untouched signature of a NACK
C29_Witness ==
    DivergeWithoutAppHash /\ vpc = "verified" /\ BuiltFromSignVote /\ ~vin.ack
        /\ vtamper = "none" /\ vver.err = "missing app hash"

\* MarshalBinary has refused a Diverge vote without AppHash
C29_MarshalRefused ==
    DivergeWithoutAppHash /\ vpc = "encoded" /\ venc.kind = "vote" /\ venc.err # "none"

\* ------------------------------------------------------------------------
\* Properties of the wire forms of signatures, votes and commits
\* ------------------------------------------------------------------------
\* a vote has an AppHash exactly if its status is Diverge
WellFormedVote(v) == (v.AppHash # << >>) <=> (v.AckStatus = "Diverge")

\* the record that was written is well formed
WellFormedWritten ==
    venc.kind \in {"vote", "commit1", "commit2"} => WellFormedVote(vvote)

\* C30: a well-formed Signature, VoteInfo (AppHash present iff AckStatus is
\* Diverge) or CommitInfo with no, one or two votes is encoded without error
\* and decodes to itself; Signature.ReadFrom reports the byte count that
\* Signature.WriteTo reported; and decoding the encoding without its last
\* byte fails.
C30_VoteRoundTrip ==
    WellFormedWritten =>
        /\ vpc = "encoded" => venc.err = "none"
        /\ vpc = "decoded" /\ vdec.cut = 0
               => /\ vdec.err = "none"
                  /\ vdec.val = EncodedValue(venc.kind, vvote)
                  /\ venc.kind = "sig" => vdec.n = venc.n
        /\ vpc = "decoded" /\ vdec.cut = 1
               => /\ vdec.err # "none"
                  /\ venc.kind = "sig" => vdec.n # venc.n

\* a CommitInfo with two votes, the first a Diverge vote signed by SignVote,
\* has been read back
C30_Witness ==
    vpc = "decoded" /\ vdec.cut = 0 /\ venc.kind = "commit2" /\ BuiltFromSignVote
        /\ vvote.AckStatus = "Diverge" /\ vvote.AppHash # << >>
        /\ vdec.err = "none" /\ Len(vdec.val.Votes) = 2

\* the encoding of a well-formed record was read without its last byte
C30_Truncated(kind) ==
    vpc = "decoded" /\ vdec.cut = 1 /\ venc.kind = kind /\ WellFormedWritten
        /\ vdec.err # "none"

\* ------------------------------------------------------------------------
\* Properties of the chain-state store
\* ------------------------------------------------------------------------
\* C31: the chain table holds at most one row, and exactly one once a
\* SetChainState call has committed, also when calls interleave;
\* GetChainState returns (-1, nil) when nothing was recorded and otherwise the
\* height and app hash of the call that committed last, never the error
\* 'expected at most one row'.
C31_OneRowLatestState ==
    /\ Cardinality(chainRows) <= 1
    /\ chainLast # NoChainState => Cardinality(chainRows) = 1
    /\ chainGet.err # "unread"
           => /\ chainGet.err = "none"
              /\ chainGet.height = chainGet.last.height
              /\ chainGet.appHash = chainGet.last.appHash

\* two interleaved calls have both inserted, and GetChainState has failed
C31_Witness ==
    Cardinality(chainRows) = 2 /\ chainGet.err = "expected at most one row"

\* ------------------------------------------------------------------------
\* Properties of the consensus parameter store
\* ------------------------------------------------------------------------
\* C32: after StoreParams(p) and any sequence of StoreDiff(original, new)
\* calls in which each original equals the parameters stored at that moment,
\* LoadParams returns the last new, or p if no StoreDiff followed; StoreDiff
\* with equal parameters begins no transaction and returns nil; LoadParams on
\* a store without parameter rows returns ErrParamsNotFound.
C32_ParamsReadBack ==
    /\ paramCall.op = "LoadParams" /\ paramHist.by # "none" /\ paramHist.inStep
           => paramCall.err = "none" /\ paramCall.val = paramHist.last
    /\ paramCall.op = "LoadParams" /\ DOMAIN paramRows = {}
           => paramCall.err = "params not found"
    /\ paramCall.op = "StoreDiff" /\ paramCall.same
           => ~paramCall.began /\ paramCall.err = "none"

\* LoadParams has returned what a StoreDiff stored over the parameters of a
\* StoreParams, the gas switch among the fields it changed
C32_Witness ==
    paramCall.op = "LoadParams" /\ paramHist.by = "StoreDiff" /\ paramHist.inStep
        /\ paramCall.err = "none" /\ paramCall.val = paramHist.last
        /\ paramCall.val.DisabledGasCosts /\ paramCall.val.MaxBlockSize = -1

\* ------------------------------------------------------------------------
\* Properties of a proposal announced on several streams
\* ------------------------------------------------------------------------
\* the handler of stream s pulled the whole block it was announced
PulledAnnounced(s) ==
    rpc[s] = "closed" /\ rraw[s] = Announcements[annIdx[s]].rawBlk

\* C33: the receiver keeps no record of proposals seen. Each stream calls
\* CE.NotifyBlockProposal at most once; each stream whose announcement decodes
\* asks CE.AcceptProposal once, whatever happened on the other streams; a
\* stream on which the answer is false pulls nothing and delivers nothing; and
\* a stream on which the answer is true and which pulled the announced block
\* delivers it to the CE, also when another stream has delivered the same
\* block before.
C33_NoLocalDedup ==
    \A s \in DOMAIN rpc :
        /\ Len(ceBlk[s]) <= 1
        /\ rprop[s].err = "none" => Len(ceAccept[s]) = 1
        /\ ceAccept[s] = << FALSE >> => ceBlk[s] = << >> /\ rraw[s] = << >>
        /\ ceAccept[s] = << TRUE >> /\ PulledAnnounced(s) => ceBlk[s] = << BlkA >>

\* two streams have delivered the same block to the CE
C33_Witness ==
    \E s, t \in DOMAIN rpc :
        s # t /\ ceBlk[s] = << BlkA >> /\ ceBlk[t] = << BlkA >>

\* ------------------------------------------------------------------------
\* Properties of announceBlkProp
\* ------------------------------------------------------------------------
RECURSIVE WithoutPeer(_, _)
\* the list l without the entries equal to p
WithoutPeer(l, p) ==
    IF l = << >> THEN << >>
    ELSE IF Head(l) = p THEN WithoutPeer(Tail(l), p)
    ELSE << Head(l) >> \o WithoutPeer(Tail(l), p)

\* the announcement written to a peer, decoded
AdvertisedProp(e) == BlockPropUnmarshalBinary(e.propID)

\* C34: when announceBlkProp has returned, it has advertised the block to the
\* peers of the peer list other than the node itself, once each and in the
\* order of the list, whether or not advertising to an earlier peer failed,
\* and to nobody if the list is empty; every announcement decodes to Height =
\* header height, Hash = block hash, PrevHash = header PrevHash, Stamp = header
\* timestamp and LeaderSig = block signature, and comes with the encoded block.
C34_AnnouncedToAllPeers ==
    annpc = "done" =>
        /\ [i \in 1..Len(annLog) |-> annLog[i].peer] = WithoutPeer(annCall.peers, AnnouncerID)
        /\ \A i \in 1..Len(annLog) :
               /\ AdvertisedProp(annLog[i]).err = "none"
               /\ AdvertisedProp(annLog[i]).prop.Height = annCall.blk.Header.Height
               /\ AdvertisedProp(annLog[i]).prop.Hash = HeaderHash(annCall.blk.Header)
               /\ AdvertisedProp(annLog[i]).prop.PrevHash = annCall.blk.Header.PrevHash
               /\ AdvertisedProp(annLog[i]).prop.Stamp = annCall.blk.Header.Timestamp
               /\ AdvertisedProp(annLog[i]).prop.LeaderSig = annCall.blk.Signature
               /\ annLog[i].rawBlk = EncodeBlock(annCall.blk)

\* the block was advertised to a second peer after advertising to the first
\* one failed
C34_Witness ==
    annpc = "done" /\ Len(annLog) = 2 /\ ~annLog[1].ok

\* the node itself was in the list and was passed over
C34_SelfSkipped ==
    annpc = "done" /\ Len(annCall.peers) = 2 /\ annCall.peers[1] = AnnouncerID
        /\ Len(annLog) = 1

\* ------------------------------------------------------------------------
\* Properties of the votes on their way out: sendACK and the ACK publish task
\* ------------------------------------------------------------------------

\* the AckRes values sendACK of node n puts on ackChan
SentAckRes(n) ==
    { SendACKRes(n, TRUE, 1, HashOf(1), HashOf(6), << 1 >>),
      SendACKRes(n, FALSE, 1, HashOf(1), << >>, << 1 >>) }

\* C35: sendACK never drops a vote.  Every call puts exactly one AckRes on
\* ackChan, with the fields it was given and the node's own public key and
\* key type; and every AckRes the channel accepted while the publish task was
\* running is published exactly once on TopicACKs: each take of the head of
\* ackChan is one publish of that value, and the task does not leave its loop
\* while a value is on the channel.
C35_NoVoteDropped ==
    [][\A n \in Nodes :
          /\ PutOnChan(n, TopicACKs) =>
                /\ chanq'[n][TopicACKs] \in
                       { Append(chanq[n][TopicACKs], v) : v \in SentAckRes(n) }
                /\ chanq'[n][TopicACKs][Len(chanq'[n][TopicACKs])].PubKey = PubKeyOf(n)
                /\ chanq'[n][TopicACKs][Len(chanq'[n][TopicACKs])].PubKeyType = 0
          /\ TookFromChan(n, TopicACKs) =>
                \A m \in Nodes :
                    /\ Len(subq'[m][TopicACKs]) = Len(subq[m][TopicACKs]) + 1
                    /\ subq'[m][TopicACKs][Len(subq'[m][TopicACKs])].from = PeerIDOf(n)
                    /\ PayloadCarries(TopicACKs,
                                      subq'[m][TopicACKs][Len(subq'[m][TopicACKs])].data,
                                      Head(chanq[n][TopicACKs]))
          /\ (pubpc[n][TopicACKs] = "run" /\ pubpc'[n][TopicACKs] # "run") =>
                chanq'[n][TopicACKs] = << >>
      ]_vars

\* C35 (amended): every call of sendACK puts exactly one AckRes on ackChan,
\* with the fields it was given and the node's own public key and key type.
\* An AckRes the publish task takes from ackChan is published at most once:
\* exactly once, to every live subscription, when Publish succeeds; not at
\* all when Publish fails, and then the task leaves its loop.  A task that
\* has left its loop takes and publishes nothing, so an AckRes still on
\* ackChan at that time is never published.
C35_VotePublishedUnlessPublishFails ==
    [][\A n \in Nodes :
          /\ PutOnChan(n, TopicACKs) =>
                /\ chanq'[n][TopicACKs] \in
                       { Append(chanq[n][TopicACKs], v) : v \in SentAckRes(n) }
                /\ chanq'[n][TopicACKs][Len(chanq'[n][TopicACKs])].PubKey = PubKeyOf(n)
                /\ chanq'[n][TopicACKs][Len(chanq'[n][TopicACKs])].PubKeyType = 0
          /\ TookFromChan(n, TopicACKs) =>
                /\ chanq'[n][TopicACKs] = Tail(chanq[n][TopicACKs])
                /\ \/ /\ pubpc'[n][TopicACKs] = "run"
                      /\ \A m \in Nodes :
                            subq'[m][TopicACKs] =
                                IF SubLive(m, TopicACKs)
                                THEN Append(subq[m][TopicACKs],
                                            [from |-> PeerIDOf(n),
                                             data |-> AckResMarshalBinary(
                                                          Head(chanq[n][TopicACKs]))])
                                ELSE subq[m][TopicACKs]
                   \/ /\ pubpc'[n][TopicACKs] = "exiting"
                      /\ \A m \in Nodes : subq'[m][TopicACKs] = subq[m][TopicACKs]
          /\ pubpc[n][TopicACKs] # "run" =>
                /\ ~TookFromChan(n, TopicACKs)
                /\ ~PublishedBy(n, TopicACKs)
      ]_vars

\* a vote of B was lost: B's sendACK returned, the ACK publish task took the
\* AckRes and left its loop while the context was live, and the AckRes is in
\* no subscription and was handed to no CE
C35_Witness ==
    /\ focus = TopicACKs
    /\ pubpc["B"][TopicACKs] = "exiting"
    /\ ~ctxDone["B"]
    /\ chanq["B"][TopicACKs] = << >>
    /\ nsent = 2
    /\ \A m \in Nodes : subq[m][TopicACKs] = << >>
    /\ last = NoTurn

\* ------------------------------------------------------------------------
\* Properties of decoding peer-supplied announcements
\* ------------------------------------------------------------------------

\* the sigLen field of the announcement that was written on stream s
SentSigLen(s) ==
    Int64(Slice(Announcements[annIdx[s]].propID, 17 + 2 * HashLen, 8))

\* the announcement on stream s holds all fixed fields and has been read
ReadWithSigLen(s) ==
    /\ annIdx[s] # 0
    /\ Len(Announcements[annIdx[s]].propID) >= PropFixedLen
    /\ rpc[s] # "prop_read"

\* C36: decoding a BlockProp from the bytes a peer wrote ends in a decoded
\* value or a returned error and never in a crash of the stream handler; an
\* announcement whose sigLen field is outside 0..1000, negative values of the
\* signed 64-bit field included, is rejected with an error and no CE call is
\* made for it.
C36_DecodeNeverCrashes ==
    \A s \in Streams :
        /\ rpc[s] # "panicked"
        /\ (ReadWithSigLen(s) /\ SentSigLen(s) \notin 0..MaxSigLen) =>
               /\ rprop[s].err \notin {"none", "panic"}
               /\ rpc[s] = "closed"
               /\ ceAccept[s] = << >>
               /\ ceBlk[s] = << >>

\* the handler of a stream read an announcement with a negative sigLen field
\* and crashed in make([]byte, sigLen)
C36_Witness ==
    \E s \in Streams :
        /\ ReadWithSigLen(s)
        /\ SentSigLen(s) < 0
        /\ rpc[s] = "panicked"
        /\ rprop[s].err = "panic"

\* ------------------------------------------------------------------------
\* Properties of the teardown of the gossip tasks
\* ------------------------------------------------------------------------

\* the wait group of node n has been released by the publish tasks of all
\* topics: n.wg.Wait() returns
WgReleased(n) == \A t \in Topics : pubpc[n][t] = "done"

\* C37: the teardown of every gossip topic is ordered.  The receive task
\* signals its exit (closes subCanceled) only after it has cancelled the
\* subscription; the publish task closes the topic only after that signal;
\* the wait group is released for the topic only after the topic is closed;
\* and a wait on the wait group returns only when both tasks of every topic
\* have finished.
C37_TeardownOrdered ==
    [][\A n \in Nodes :
          /\ \A t \in Topics :
                /\ (subpc[n][t] # "done" /\ subpc'[n][t] = "done") =>
                       /\ subpc[n][t] = "cancelled"
                       /\ subq[n][t] = << >>
                /\ (pubpc[n][t] # "closed" /\ pubpc'[n][t] = "closed") =>
                       /\ pubpc[n][t] = "exiting"
                       /\ subpc[n][t] = "done"
                /\ (pubpc[n][t] # "done" /\ pubpc'[n][t] = "done") =>
                       /\ pubpc[n][t] = "closed"
                       /\ subpc[n][t] = "done"
          /\ WgReleased(n)' =>
                \A t \in Topics : subpc'[n][t] = "done" /\ pubpc'[n][t] = "done"
      ]_vars

\* the context of a node was cancelled and the wait group has been released
\* by the publish tasks of all four topics
C37_Witness ==
    \E n \in Nodes : ctxDone[n] /\ WgReleased(n)

\* ------------------------------------------------------------------------
\* Properties of the delivery of consensus resets
\* ------------------------------------------------------------------------

\* C38: CE.NotifyResetState is called synchronously from the reset receive
\* loop.  A turn that makes the call leaves the loop inside the CE, and the
\* loop takes no further reset message until the call has returned, so at
\* most one call of a node is in flight; a turn is made for the head of the
\* subscription, which grows only at its end, so the calls are made in the
\* order the messages were received.
C38_ResetCallsOneAtATime ==
    [][\A n \in Nodes :
          /\ TookFromSub(n, TopicReset) =>
                /\ subpc[n][TopicReset] = "run"
                /\ last'.node = n
                /\ last'.topic = TopicReset
                /\ [from |-> last'.from, data |-> last'.data] = Head(subq[n][TopicReset])
                /\ subq'[n][TopicReset] = Tail(subq[n][TopicReset])
                /\ Len(last'.calls) <= 1
                /\ last'.calls # << >> =>
                       /\ last'.calls[1].fn = "NotifyResetState"
                       /\ subpc'[n][TopicReset] = "in_ce"
                /\ last'.calls = << >> => subpc'[n][TopicReset] = "run"
          /\ subpc[n][TopicReset] = "in_ce" =>
                /\ ~TookFromSub(n, TopicReset)
                /\ last'.node = n => last' = last
                /\ subpc'[n][TopicReset] \in {"in_ce", "run"}
          /\ Len(subq'[n][TopicReset]) >= Len(subq[n][TopicReset]) =>
                SubSeq(subq'[n][TopicReset], 1, Len(subq[n][TopicReset])) =
                    subq[n][TopicReset]
      ]_vars

\* a node is inside CE.NotifyResetState for the first of two resets while the
\* second one waits in its subscription
C38_Witness ==
    \E n \in Nodes :
        /\ subpc[n][TopicReset] = "in_ce"
        /\ last.node = n
        /\ last.calls # << >>
        /\ Len(subq[n][TopicReset]) = 1

\* ------------------------------------------------------------------------
\* Properties of the key under which an ACK is delivered
\* ------------------------------------------------------------------------

\* the last turn was made by a leader for an ACK of another peer that decodes
\* and whose envelope sender has a derivable key
AckDeliverable ==
    /\ TurnOn(TopicACKs)
    /\ last.role = RoleLeader
    /\ last.from # PeerIDOf(last.node)
    /\ AckResUnmarshalBinary(last.data).err = "none"
    /\ PubKeyFromPeerID(last.from).err = "none"

\* C39: the public key an ACK is delivered under is always the one derived
\* from the source peer id of the envelope.  The PubKey and PubKeyType of the
\* payload are neither used for it nor compared with it: an AckRes whose
\* payload names another key is still handed to CE.NotifyACK, unchanged,
\* under the key of the envelope's sender.
C39_AckKeyFromEnvelope ==
    /\ (TurnOn(TopicACKs) /\ last.calls # << >>) =>
           /\ Len(last.calls) = 1
           /\ last.calls[1].fn = "NotifyACK"
           /\ PubKeyFromPeerID(last.from).err = "none"
           /\ last.calls[1].key = PubKeyFromPeerID(last.from).key
           /\ last.calls[1].arg = AckResUnmarshalBinary(last.data).val
    /\ AckDeliverable => last.calls # << >>

\* a leader handed over an ACK whose payload names the key of A although X
\* published it: the call carries the key of X
C39_Witness ==
    /\ AckDeliverable
    /\ last.from = PeerIDOf("X")
    /\ AckResUnmarshalBinary(last.data).val.PubKey = PubKeyOf("A")
    /\ last.calls # << >>
    /\ last.calls[1].key = PubKeyOf("X")
    /\ last.calls[1].arg.PubKey = PubKeyOf("A")

\* ------------------------------------------------------------------------
\* Properties of the termination of the gossip tasks
\* ------------------------------------------------------------------------

\* both tasks of node n on topic t have finished
TasksFinished(n, t) == pubpc[n][t] = "done" /\ subpc[n][t] = "done"

\* C40: after the root context of a node is cancelled, every gossip publish
\* and receive task of the node eventually terminates, so that the wait group
\* is released; in particular the discovery-request receive task is not left
\* blocked for ever in its send on discResp after the discovery-response
\* publish task has left its loop.
C40_TasksTerminate ==
    \A n \in Nodes :
        ctxDone[n] ~> (\A t \in Topics : InPlay(t) => TasksFinished(n, t))

\* the context of a node is cancelled, its discovery-response publish task
\* has left its loop, and its discovery-request receive task is inside
\* sendDiscoveryResponse with nobody left to receive from discResp
C40_Witness ==
    \E n \in Nodes :
        /\ ctxDone[n]
        /\ pubpc[n][TopicDiscResp] # "run"
        /\ \/ subpc[n][TopicDiscReq] = "handing" /\ chanq[n][TopicDiscResp] # << >>
           \/ subpc[n][TopicDiscReq] = "sending"
                  /\ Len(chanq[n][TopicDiscResp]) = ChanCap

====
